---- MODULE Spec2Model ----
(***************************************************************************)
(* NutriGenie: the food catalog (food_database.py), the intake aggregator  *)
(* and gap analyzer (nutrition_analyzer.py), the food comparator           *)
(* (food_comparator.py), the recommender (smart_recommendations.py), the   *)
(* BMI classes and weight branches (nutrition_engine.py) and the intake    *)
(* log of the app (nutrigenie_app.py), as a state machine whose steps are  *)
(* the calls a client makes on a loaded catalog.                           *)
(*                                                                         *)
(* Numbers are exact rationals [n, d] in lowest terms (d > 0): Python      *)
(* float arithmetic without its rounding.  Text is a sequence of           *)
(* one-character strings, so that str.lower() and == act on characters.    *)
(* A call's outcome has status "ok" and the record or dict returned (in    *)
(* value) or the list returned (in list), or has for status the name of    *)
(* the exception that left the call.                                       *)
(***************************************************************************)
EXTENDS Integers, Sequences, FiniteSets, TLC

VARIABLES food_data, columns, food_by_category, logged_foods, call, outcome

vars == <<food_data, columns, food_by_category, logged_foods, call, outcome>>

----------------------------------------------------------------------------
(* Bounds of the model *)

MaxRows == 3        \* rows of a loaded table
MaxEntries == 2     \* entries of one aggregate call
MaxResultsTop == 2  \* largest max_results passed to find_similar_foods
MaxIntake == 2      \* items of the intake passed to get_personalized_recommendations
MaxRecommendations == 2  \* largest num_recommendations passed
MaxNamed == 2       \* rows of a table loaded to be categorized
MaxLog == 2         \* entries of the intake log

----------------------------------------------------------------------------
(* Exact arithmetic standing for Python floats *)

RECURSIVE GCD(_, _)
GCD(a, b) == IF b = 0 THEN a ELSE GCD(b, a % b)

Abs(i) == IF i < 0 THEN -i ELSE i

Norm(n, d) ==
    LET g == GCD(Abs(n), d)
    IN  [n |-> (IF n < 0 THEN -(Abs(n) \div g) ELSE n \div g), d |-> d \div g]

R(i) == [n |-> i, d |-> 1]

Dec(tenths) == Norm(tenths, 10)

Zero == R(0)

\* the sum over the least common denominator
RAdd(x, y) ==
    LET g == GCD(x.d, y.d)
    IN  Norm(x.n * (y.d \div g) + y.n * (x.d \div g), (x.d \div g) * y.d)

RSub(x, y) ==
    LET g == GCD(x.d, y.d)
    IN  Norm(x.n * (y.d \div g) - y.n * (x.d \div g), (x.d \div g) * y.d)

\* the product, the common factors cancelled before multiplying
RMul(x, y) ==
    LET g1 == GCD(Abs(x.n), y.d)
        g2 == GCD(Abs(y.n), x.d)
    IN  Norm((x.n \div g1) * (y.n \div g2), (x.d \div g2) * (y.d \div g1))

\* x / y for y # 0 (the callers raise ZeroDivisionError themselves when y = 0)
RDiv(x, y) ==
    IF y.n < 0 THEN RMul(x, [n |-> -y.d, d |-> -y.n]) ELSE RMul(x, [n |-> y.d, d |-> y.n])

RLt(x, y) ==
    LET g == GCD(x.d, y.d)
    IN  x.n * (y.d \div g) < y.n * (x.d \div g)

RAbs(x) == [n |-> Abs(x.n), d |-> x.d]

RNeg(x) == [n |-> -x.n, d |-> x.d]

----------------------------------------------------------------------------
(* Text *)

UpperLetters ==
    <<"A", "B", "C", "D", "E", "F", "G", "H", "I", "J", "K", "L", "M",
      "N", "O", "P", "Q", "R", "S", "T", "U", "V", "W", "X", "Y", "Z">>

LowerLetters ==
    <<"a", "b", "c", "d", "e", "f", "g", "h", "i", "j", "k", "l", "m",
      "n", "o", "p", "q", "r", "s", "t", "u", "v", "w", "x", "y", "z">>

\* the lower-case letter of each upper-case letter
LowerOf ==
    [c \in {UpperLetters[i] : i \in 1..Len(UpperLetters)} |->
        LowerLetters[CHOOSE i \in 1..Len(UpperLetters) : UpperLetters[i] = c]]

LowerChar(c) == IF c \in DOMAIN LowerOf THEN LowerOf[c] ELSE c

\* str.lower()
Lower(s) == [i \in 1..Len(s) |-> LowerChar(s[i])]

Apple == <<"A", "p", "p", "l", "e">>
apple == <<"a", "p", "p", "l", "e">>
APPLE == <<"A", "P", "P", "L", "E">>
Banana == <<"B", "a", "n", "a", "n", "a">>
Leek == <<"L", "e", "e", "k">>
Water == <<"W", "a", "t", "e", "r">>
Mango == <<"M", "a", "n", "g", "o">>

----------------------------------------------------------------------------
(* Outcomes *)

None == [kind |-> "None"]

Ok(v) == [status |-> "ok", value |-> v]

OkList(l) == [status |-> "ok", list |-> l]

Raise(e) == [status |-> e, value |-> None]

----------------------------------------------------------------------------
(* The catalog: food_database.py *)

\* The rows of the CSV files.  Values are per 100 g.
AppleRow ==
    [name |-> Apple, calories |-> R(52), fat |-> Dec(2), carbs |-> R(14),
     protein |-> Dec(3), fiber |-> Dec(24), sodium |-> R(1), vitamin_c |-> Dec(46),
     iron |-> Dec(1), calcium |-> R(6), category |-> "fruits"]

BananaRow ==
    [name |-> Banana, calories |-> R(89), fat |-> Dec(3), carbs |-> R(23),
     protein |-> Dec(11), fiber |-> Dec(26), sodium |-> R(1), vitamin_c |-> Dec(87),
     iron |-> Dec(3), calcium |-> R(5), category |-> "fruits"]

LeekRow ==
    [name |-> Leek, calories |-> R(15), fat |-> Dec(3), carbs |-> R(5),
     protein |-> Dec(11), fiber |-> Dec(26), sodium |-> R(20), vitamin_c |-> R(12),
     iron |-> Dec(21), calcium |-> R(59), category |-> "vegetables"]

WaterRow ==
    [name |-> Water, calories |-> Zero, fat |-> Zero, carbs |-> Zero,
     protein |-> Zero, fiber |-> Zero, sodium |-> Zero, vitamin_c |-> Zero,
     iron |-> Zero, calcium |-> Zero, category |-> "beverages"]

FoodRows == {AppleRow, BananaRow, LeekRow, WaterRow}

\* The columns get_food_nutrition reads of a row (those of the nutrients the
\* modelled operations use; the table has 24 more nutrient columns).
BaseColumns ==
    {"food", "Caloric Value", "Fat", "Carbohydrates", "Protein", "Dietary Fiber",
     "Sodium", "Vitamin C", "Iron", "Calcium"}

\* The columns find_similar_foods reads of a row.
ComparatorColumns ==
    {"food_name", "calories", "protein", "fat", "carbs", "fiber", "category"}

\* The headers a CSV directory can have: the columns FoodDatabase needs, with
\* or without the columns FoodComparator reads.
Headers == {BaseColumns, BaseColumns \cup ComparatorColumns}

CellOf(r, c) ==
    CASE c = "food" -> r.name
      [] c = "Caloric Value" -> r.calories
      [] c = "Fat" -> r.fat
      [] c = "Carbohydrates" -> r.carbs
      [] c = "Protein" -> r.protein
      [] c = "Dietary Fiber" -> r.fiber
      [] c = "Sodium" -> r.sodium
      [] c = "Vitamin C" -> r.vitamin_c
      [] c = "Iron" -> r.iron
      [] c = "Calcium" -> r.calcium
      [] c = "food_name" -> r.name
      [] c = "calories" -> r.calories
      [] c = "protein" -> r.protein
      [] c = "fat" -> r.fat
      [] c = "carbs" -> r.carbs
      [] c = "fiber" -> r.fiber
      [] c = "category" -> r.category

\* pd.concat of the files read: one row per CSV line, one cell per column
_load_food_data(rows, header) ==
    [i \in 1..Len(rows) |-> [c \in header |-> CellOf(rows[i], c)]]

Smaller(a, b) == IF a < b THEN a ELSE b

\* The tables a load can produce: MaxRows lines (all the lines there are, when
\* there are fewer) in any order, no food listed twice
Catalogs ==
    {rows \in [1..Smaller(MaxRows, Cardinality(FoodRows)) -> FoodRows] :
        \A i, j \in 1..Len(rows) : i # j => rows[i] # rows[j]}

FoodNutrient(row) ==
    [food_name |-> row["food"],
     calories |-> row["Caloric Value"],
     fat |-> row["Fat"],
     carbs |-> row["Carbohydrates"],
     protein |-> row["Protein"],
     fiber |-> row["Dietary Fiber"],
     sodium |-> row["Sodium"],
     vitamin_c |-> row["Vitamin C"],
     iron |-> row["Iron"],
     calcium |-> row["Calcium"]]

\* a plausible slip: the stored names compared as they are written
MatchingRows_case_sensitive(table, food_name) ==
    SelectSeq(table, LAMBDA row : row["food"] = food_name)

\* self.food_data[self.food_data['food'].str.lower() == food_name]
MatchingRows(table, food_name) ==
    SelectSeq(table, LAMBDA row : Lower(row["food"]) = food_name)

\* pandas Series.empty: the row has no cells
RowEmpty(row) == DOMAIN row = {}

\* .iloc[0] of a frame without rows raises IndexError
get_food_nutrition(table, food_name) ==
    LET matches == MatchingRows(table, Lower(food_name))
    IN  IF Len(matches) = 0 THEN Raise("IndexError")
        ELSE IF RowEmpty(matches[1]) THEN Ok(None)
        ELSE Ok(FoodNutrient(matches[1]))

----------------------------------------------------------------------------
(* The category lists: FoodDatabase._categorize_food *)

\* sub in s
Contains(s, sub) ==
    \E i \in 0..(Len(s) - Len(sub)) : SubSeq(s, i + 1, i + Len(sub)) = sub

\* any(k in food_name for k in keywords)
AnyIn(keywords, food_name) ==
    \E k \in 1..Len(keywords) : Contains(food_name, keywords[k])

\* the beverage-related keywords
beverage_keywords ==
    <<<<"m", "i", "l", "k">>,
      <<"c", "o", "f", "f", "e", "e">>,
      <<"t", "e", "a">>,
      <<"j", "u", "i", "c", "e">>,
      <<"w", "a", "t", "e", "r">>,
      <<"s", "o", "d", "a">>,
      <<"s", "m", "o", "o", "t", "h", "i", "e">>,
      <<"s", "h", "a", "k", "e">>,
      <<"l", "a", "t", "t", "e">>,
      <<"c", "o", "c", "o", "a">>,
      <<"l", "e", "m", "o", "n", "a", "d", "e">>,
      <<"b", "e", "v", "e", "r", "a", "g", "e">>,
      <<"c", "o", "c", "k", "t", "a", "i", "l">>,
      <<"a", "l", "c", "o", "h", "o", "l">>,
      <<"a", "l", "c", "o", "h", "o", "l", "i", "c">>,
      <<"w", "i", "n", "e">>,
      <<"b", "e", "e", "r">>,
      <<"c", "i", "d", "e", "r">>,
      <<"l", "i", "q", "u", "e", "u", "r">>,
      <<"m", "a", "r", "g", "a", "r", "i", "t", "a">>,
      <<"m", "a", "r", "t", "i", "n", "i">>,
      <<"w", "h", "i", "s", "k", "e", "y">>,
      <<"v", "o", "d", "k", "a">>,
      <<"g", "i", "n">>,
      <<"r", "u", "m">>,
      <<"t", "e", "q", "u", "i", "l", "a">>,
      <<"s", "a", "n", "g", "r", "i", "a">>,
      <<"p", "u", "n", "c", "h">>,
      <<"i", "c", "e", "d">>,
      <<"h", "o", "t">>,
      <<"i", "c", "e", "d", " ", "t", "e", "a">>,
      <<"h", "o", "t", " ", "c", "h", "o", "c", "o", "l", "a", "t", "e">>,
      <<"e", "s", "p", "r", "e", "s", "s", "o">>,
      <<"c", "a", "p", "p", "u", "c", "c", "i", "n", "o">>,
      <<"f", "r", "a", "p", "p", "u", "c", "c", "i", "n", "o">>,
      <<"m", "a", "t", "c", "h", "a">>,
      <<"c", "h", "a", "i">>,
      <<"m", "o", "c", "h", "a">>,
      <<"p", "r", "o", "t", "e", "i", "n", " ", "s", "h", "a", "k", "e">>,
      <<"e", "n", "e", "r", "g", "y", " ", "d", "r", "i", "n", "k">>,
      <<"s", "p", "o", "r", "t", "s", " ", "d", "r", "i", "n", "k">>,
      <<"e", "l", "e", "c", "t", "r", "o", "l", "y", "t", "e">>,
      <<"t", "o", "n", "i", "c">>,
      <<"s", "e", "l", "t", "z", "e", "r">>,
      <<"s", "p", "a", "r", "k", "l", "i", "n", "g">>,
      <<"m", "i", "n", "e", "r", "a", "l", " ", "w", "a", "t", "e", "r">>,
      <<"f", "l", "a", "v", "o", "r", "e", "d", " ", "w", "a", "t", "e", "r">>,
      <<"m", "i", "l", "k", "s", "h", "a", "k", "e">>>>

\* 'cheese' in food_name or 'milk' in food_name
dairy_keywords ==
    <<<<"c", "h", "e", "e", "s", "e">>,
      <<"m", "i", "l", "k">>>>

\* the meat list
meat_keywords ==
    <<<<"c", "h", "i", "c", "k", "e", "n">>,
      <<"b", "e", "e", "f">>,
      <<"p", "o", "r", "k">>,
      <<"f", "i", "s", "h">>,
      <<"h", "a", "m">>>>

\* the veg list
vegetable_keywords ==
    <<<<"v", "e", "g", "g", "i", "e">>,
      <<"v", "e", "g", "e", "t", "a", "b", "l", "e">>,
      <<"s", "a", "l", "a", "d">>>>

\* the fruit list
fruit_keywords ==
    <<<<"a", "p", "p", "l", "e">>,
      <<"b", "a", "n", "a", "n", "a">>,
      <<"o", "r", "a", "n", "g", "e">>,
      <<"b", "e", "r", "r", "y">>>>

\* the grain list
grain_keywords ==
    <<<<"r", "i", "c", "e">>,
      <<"w", "h", "e", "a", "t">>,
      <<"o", "a", "t">>,
      <<"b", "r", "e", "a", "d">>>>

\* the snack list
snack_keywords ==
    <<<<"c", "r", "i", "s", "p">>,
      <<"c", "h", "i", "p", "s">>,
      <<"n", "u", "t">>,
      <<"p", "o", "p", "c", "o", "r", "n">>>>

\* the dessert list
dessert_keywords ==
    <<<<"c", "a", "k", "e">>,
      <<"p", "i", "e">>,
      <<"p", "u", "d", "d", "i", "n", "g">>,
      <<"c", "h", "o", "c", "o", "l", "a", "t", "e">>>>

\* the values of the enum FoodCategory
FoodCategory ==
    {"dairy", "meat", "vegetables", "fruits", "grains", "beverages", "snacks", "desserts"}

\* a name that matches no keyword is appended to no list
NoCategory == "none"

\* a plausible slip: the dairy test placed before the beverage test
CategoryOf_dairy_first(food_name) ==
    IF AnyIn(dairy_keywords, food_name) THEN "dairy"
    ELSE IF AnyIn(beverage_keywords, food_name) THEN "beverages"
    ELSE IF AnyIn(meat_keywords, food_name) THEN "meat"
    ELSE IF AnyIn(vegetable_keywords, food_name) THEN "vegetables"
    ELSE IF AnyIn(fruit_keywords, food_name) THEN "fruits"
    ELSE IF AnyIn(grain_keywords, food_name) THEN "grains"
    ELSE IF AnyIn(snack_keywords, food_name) THEN "snacks"
    ELSE IF AnyIn(dessert_keywords, food_name) THEN "desserts"
    ELSE NoCategory

\* the if / elif chain: the list a lower-cased name is appended to
CategoryOf(food_name) ==
    IF AnyIn(beverage_keywords, food_name) THEN "beverages"
    ELSE IF AnyIn(dairy_keywords, food_name) THEN "dairy"
    ELSE IF AnyIn(meat_keywords, food_name) THEN "meat"
    ELSE IF AnyIn(vegetable_keywords, food_name) THEN "vegetables"
    ELSE IF AnyIn(fruit_keywords, food_name) THEN "fruits"
    ELSE IF AnyIn(grain_keywords, food_name) THEN "grains"
    ELSE IF AnyIn(snack_keywords, food_name) THEN "snacks"
    ELSE IF AnyIn(dessert_keywords, food_name) THEN "desserts"
    ELSE NoCategory

\* self.food_data['food'].str.lower(), in table order
LowerNames(table) == [i \in 1..Len(table) |-> Lower(table[i]["food"])]

\* a plausible slip: `if` for the first `elif`, so that the dairy test starts a
\* second chain that a beverage name goes through as well
_categorize_food_second_chain(table) ==
    LET Second(food_name) ==
            IF AnyIn(dairy_keywords, food_name) THEN "dairy"
            ELSE IF AnyIn(meat_keywords, food_name) THEN "meat"
            ELSE IF AnyIn(vegetable_keywords, food_name) THEN "vegetables"
            ELSE IF AnyIn(fruit_keywords, food_name) THEN "fruits"
            ELSE IF AnyIn(grain_keywords, food_name) THEN "grains"
            ELSE IF AnyIn(snack_keywords, food_name) THEN "snacks"
            ELSE IF AnyIn(dessert_keywords, food_name) THEN "desserts"
            ELSE NoCategory
    IN  [c \in FoodCategory |->
            SelectSeq(LowerNames(table),
                      LAMBDA food_name : IF c = "beverages"
                                         THEN AnyIn(beverage_keywords, food_name)
                                         ELSE Second(food_name) = c)]

\* one list per category, the names in table order
_categorize_food(table) ==
    [c \in FoodCategory |->
        SelectSeq(LowerNames(table), LAMBDA food_name : CategoryOf(food_name) = c)]

\* self.food_by_category.get(category, [])
get_food_by_category(by_category, category) ==
    OkList(IF category \in DOMAIN by_category THEN by_category[category] ELSE <<>>)

\* the lower-cased names that contain the lower-cased query
search_food(table, query) ==
    OkList(SelectSeq(LowerNames(table), LAMBDA food : Contains(food, Lower(query))))

----------------------------------------------------------------------------
(* The aggregator and the gap analyzer: nutrition_analyzer.py *)

TrackedNutrients ==
    {"calories", "protein", "carbs", "fat", "fiber", "vitamin_c", "iron", "calcium"}

ZeroTotals == [n \in TrackedNutrients |-> Zero]

Min(a, b) == Smaller(a, b)

\* a plausible slip: the quantity taken as the factor, the "/ 100" forgotten
scale_factor_unscaled(quantity) == R(quantity)

scale_factor(quantity) == RDiv(R(quantity), R(100))

AddScaled(total, nutrition, quantity) ==
    [n \in TrackedNutrients |-> RAdd(total[n], RMul(nutrition[n], scale_factor(quantity)))]

\* the loop over zip(consumed_foods, quantities) from entry i on
RECURSIVE AnalyzeFrom(_, _, _, _, _)
AnalyzeFrom(table, consumed_foods, quantities, i, total) ==
    IF i > Min(Len(consumed_foods), Len(quantities)) THEN Ok(total)
    ELSE LET got == get_food_nutrition(table, consumed_foods[i])
         IN  IF got.status # "ok" THEN got
             ELSE IF got.value = None
             THEN AnalyzeFrom(table, consumed_foods, quantities, i + 1, total)
             ELSE AnalyzeFrom(table, consumed_foods, quantities, i + 1,
                              AddScaled(total, got.value, quantities[i]))

analyze_daily_intake(table, consumed_foods, quantities) ==
    AnalyzeFrom(table, consumed_foods, quantities, 1, ZeroTotals)

TargetThreshold == Dec(8)

Current(intake, nutrient) == IF nutrient \in DOMAIN intake THEN intake[nutrient] ELSE Zero

\* a plausible slip: "<=" for "<"
BelowTarget_inclusive(current, target) == ~RLt(RMul(target, TargetThreshold), current)

\* current < target * 0.8
BelowTarget(current, target) == RLt(current, RMul(target, TargetThreshold))

Percentage(current, target) == RMul(RDiv(current, target), R(100))

GapEntry(current, target) ==
    [current |-> current,
     target |-> target,
     deficit |-> RSub(target, current),
     percentage |-> Percentage(current, target)]

\* a plausible slip: the entry of every target built before the test, so that
\* current / target is computed for a nutrient that is not flagged
identify_nutritional_gaps_eager(intake, targets) ==
    LET flagged == {n \in DOMAIN targets : BelowTarget(Current(intake, n), targets[n])}
    IN  IF \E n \in DOMAIN targets : targets[n] = Zero THEN Raise("ZeroDivisionError")
        ELSE Ok([n \in flagged |-> GapEntry(Current(intake, n), targets[n])])

\* intake and targets are dicts: functions from nutrient names to numbers
identify_nutritional_gaps(intake, targets) ==
    LET flagged == {n \in DOMAIN targets : BelowTarget(Current(intake, n), targets[n])}
    IN  IF \E n \in flagged : targets[n] = Zero THEN Raise("ZeroDivisionError")
        ELSE Ok([n \in flagged |-> GapEntry(Current(intake, n), targets[n])])

----------------------------------------------------------------------------
(* The comparator: food_comparator.py *)

DefaultNutrients ==
    <<"calories", "fat", "carbs", "protein", "fiber", "sodium", "vitamin_c", "iron">>

\* getattr(nutrition, nutrient, 0)
GetAttr(nutrition, nutrient) ==
    IF nutrient \in DOMAIN nutrition THEN nutrition[nutrient] ELSE Zero

\* a plausible slip: the absolute difference
difference_abs(value1, value2) == RAbs(RSub(value1, value2))

difference(value1, value2) == RSub(value1, value2)

\* a plausible slip: the difference taken relative to the first food
diff_percent_of_first(value1, value2) ==
    IF value1 = Zero /\ value2 = Zero THEN Zero
    ELSE IF value1 # Zero THEN RMul(RDiv(RSub(value1, value2), value1), R(100))
    ELSE R(100)

diff_percent(value1, value2) ==
    IF value1 = Zero /\ value2 = Zero THEN Zero
    ELSE IF value2 # Zero THEN RMul(RDiv(RSub(value1, value2), value2), R(100))
    ELSE R(100)

\* a plausible slip: the smaller value wins
better_food_smaller(food1, food2, percent) == IF RLt(percent, Zero) THEN food1 ELSE food2

\* a plausible slip: ">=" for ">", so that a tie names the first food
better_food_tie_first(food1, food2, percent) == IF RLt(percent, Zero) THEN food2 ELSE food1

better_food(food1, food2, percent) == IF RLt(Zero, percent) THEN food1 ELSE food2

CompareNutrient(food1, food2, value1, value2) ==
    [food1_value |-> value1,
     food2_value |-> value2,
     difference |-> difference(value1, value2),
     percentage_diff |-> diff_percent(value1, value2),
     better_food |-> better_food(food1, food2, diff_percent(value1, value2))]

\* nutrients is [given |-> FALSE] for None, or [given |-> TRUE, list |-> names]
compare_foods(table, food1, food2, nutrients_arg) ==
    LET nutrients == IF nutrients_arg.given THEN nutrients_arg.list ELSE DefaultNutrients
        food1_nutrition == get_food_nutrition(table, food1)
        food2_nutrition == get_food_nutrition(table, food2)
    IN  IF food1_nutrition.status # "ok" THEN food1_nutrition
        ELSE IF food2_nutrition.status # "ok" THEN food2_nutrition
        ELSE IF food1_nutrition.value = None \/ food2_nutrition.value = None
        THEN Raise("ValueError")
        ELSE Ok([food1 |-> food1,
                 food2 |-> food2,
                 comparison |->
                    [n \in {nutrients[i] : i \in 1..Len(nutrients)} |->
                        CompareNutrient(food1, food2,
                                        GetAttr(food1_nutrition.value, n),
                                        GetAttr(food2_nutrition.value, n))]])

SimilarityNutrients == <<"calories", "protein", "fat", "carbs", "fiber">>

\* the columns one iteration of the loop of find_similar_foods reads
LoopColumns == {"food_name"} \cup {SimilarityNutrients[i] : i \in 1..Len(SimilarityNutrients)}

RECURSIVE SumAbsDiff(_, _, _)
SumAbsDiff(target_nutrition, row, i) ==
    IF i > Len(SimilarityNutrients) THEN Zero
    ELSE RAdd(RAbs(RSub(GetAttr(target_nutrition, SimilarityNutrients[i]),
                        row[SimilarityNutrients[i]])),
              SumAbsDiff(target_nutrition, row, i + 1))

\* row['food_name'] == food
IsTarget(row, food) == row["food_name"] = food

\* the (name, score) pairs of the rows from i on, in table order
RECURSIVE Similarities(_, _, _, _)
Similarities(all_foods, target_nutrition, food, i) ==
    IF i > Len(all_foods) THEN <<>>
    ELSE IF IsTarget(all_foods[i], food)
    THEN Similarities(all_foods, target_nutrition, food, i + 1)
    ELSE <<[name |-> all_foods[i]["food_name"],
            score |-> SumAbsDiff(target_nutrition, all_foods[i], 1)]>>
         \o Similarities(all_foods, target_nutrition, food, i + 1)

\* a plausible slip: an unstable sort, x placed before the elements of equal score
RECURSIVE InsertByScore_unstable(_, _)
InsertByScore_unstable(sorted, x) ==
    IF sorted = <<>> THEN <<x>>
    ELSE IF ~RLt(Head(sorted).score, x.score) THEN <<x>> \o sorted
    ELSE <<Head(sorted)>> \o InsertByScore_unstable(Tail(sorted), x)

\* x placed after the last element whose score is not larger
RECURSIVE InsertByScore(_, _)
InsertByScore(sorted, x) ==
    IF sorted = <<>> THEN <<x>>
    ELSE IF RLt(x.score, Head(sorted).score) THEN <<x>> \o sorted
    ELSE <<Head(sorted)>> \o InsertByScore(Tail(sorted), x)

\* list.sort(key=score): ascending and stable
RECURSIVE SortByScore(_)
SortByScore(s) ==
    IF s = <<>> THEN <<>>
    ELSE InsertByScore(SortByScore(SubSeq(s, 1, Len(s) - 1)), s[Len(s)])

\* s[:k]
Slice(s, k) ==
    IF k >= 0 THEN SubSeq(s, 1, Min(k, Len(s)))
    ELSE SubSeq(s, 1, IF Len(s) + k > 0 THEN Len(s) + k ELSE 0)

\* category "" stands for a category not given: `if category:` is false for it
find_similar_foods(table, header, food, category, max_results) ==
    LET target_nutrition == get_food_nutrition(table, food)
    IN  IF target_nutrition.status # "ok" THEN target_nutrition
        ELSE IF target_nutrition.value = None THEN OkList(<<>>)
        ELSE IF category # "" /\ "category" \notin header THEN Raise("KeyError")
        ELSE LET all_foods ==
                     IF category # ""
                     THEN SelectSeq(table, LAMBDA row : row["category"] = category)
                     ELSE table
             IN  IF Len(all_foods) > 0 /\ "food_name" \notin header
                 THEN Raise("KeyError")
                 ELSE IF (\E i \in 1..Len(all_foods) : ~IsTarget(all_foods[i], food))
                         /\ ~(LoopColumns \subseteq header)
                 THEN Raise("KeyError")
                 ELSE LET similarities ==
                              SortByScore(Similarities(all_foods, target_nutrition.value,
                                                       food, 1))
                          top == Slice(similarities, max_results)
                      IN  OkList([i \in 1..Len(top) |-> top[i].name])

----------------------------------------------------------------------------
(* The recommender: smart_recommendations.py *)

male == <<"m", "a", "l", "e">>
Male == <<"M", "a", "l", "e">>
female == <<"f", "e", "m", "a", "l", "e">>
sedentary == <<"s", "e", "d", "e", "n", "t", "a", "r", "y">>
light == <<"l", "i", "g", "h", "t">>
moderate == <<"m", "o", "d", "e", "r", "a", "t", "e">>
Moderate == <<"M", "o", "d", "e", "r", "a", "t", "e">>
heavy == <<"h", "e", "a", "v", "y">>
very_heavy == <<"v", "e", "r", "y", "_", "h", "e", "a", "v", "y">>

\* a plausible slip: the 3-level key of nutrition_engine.py given its multiplier
activity_multipliers_three_level(key) ==
    CASE key = sedentary -> Norm(12, 10)
      [] key = light -> Norm(1375, 1000)
      [] key = moderate -> Norm(155, 100)
      [] key = heavy \/ key = <<"a", "c", "t", "i", "v", "e">> -> Norm(1725, 1000)
      [] key = very_heavy -> Norm(19, 10)
      [] OTHER -> Norm(155, 100)

\* activity_multipliers.get(key, 1.55)
activity_multipliers(key) ==
    CASE key = sedentary -> Norm(12, 10)
      [] key = light -> Norm(1375, 1000)
      [] key = moderate -> Norm(155, 100)
      [] key = heavy -> Norm(1725, 1000)
      [] key = very_heavy -> Norm(19, 10)
      [] OTHER -> Norm(155, 100)

\* Mifflin-St Jeor, times the activity multiplier
_calculate_calorie_needs(age, weight, height, gender, activity_level) ==
    LET base == RSub(RAdd(RMul(R(10), weight), RMul(Norm(625, 100), height)),
                     RMul(R(5), age))
        bmr == IF Lower(gender) = male THEN RAdd(base, R(5)) ELSE RSub(base, R(161))
    IN  RMul(bmr, activity_multipliers(Lower(activity_level)))

\* a plausible slip: the lower end of the 0.8 g - 1.2 g range taken
_calculate_protein_needs_low(weight) == RMul(weight, Norm(8, 10))

_calculate_protein_needs(weight) == RMul(weight, R(1))

ProfileKeys == {"age", "weight", "height", "gender", "activity_level"}

\* the general recommendation for fiber, in grams
FiberNeed == R(25)

\* the gaps dict, keys in insertion order
GapNames == <<"calories", "protein", "fiber">>

\* user_profile[key] raises KeyError for a key the profile lacks
_calculate_nutritional_gaps(current_nutrition, user_profile) ==
    IF ~(ProfileKeys \subseteq DOMAIN user_profile) THEN Raise("KeyError")
    ELSE LET calorie_needs ==
                 _calculate_calorie_needs(user_profile["age"], user_profile["weight"],
                                          user_profile["height"], user_profile["gender"],
                                          user_profile["activity_level"])
             protein_needs == _calculate_protein_needs(user_profile["weight"])
         IN  Ok([calories |-> RSub(calorie_needs, Current(current_nutrition, "calories")),
                 protein |-> RSub(protein_needs, Current(current_nutrition, "protein")),
                 fiber |-> RSub(FiberNeed, Current(current_nutrition, "fiber"))])

\* Series.get(key, 0)
SeriesGet(food, key) == IF key \in DOMAIN food THEN food[key] ELSE Zero

\* the list scores of _addresses_nutritional_gaps, from gap i on
RECURSIVE GapScores(_, _, _)
GapScores(food, gaps, i) ==
    IF i > Len(GapNames) THEN <<>>
    ELSE LET gap == gaps[GapNames[i]]
             value == SeriesGet(food, GapNames[i])
         IN  (IF RLt(Zero, gap) /\ RLt(Zero, value) THEN <<RDiv(value, gap)>> ELSE <<>>)
             \o GapScores(food, gaps, i + 1)

\* max(scores) of a list that is not empty
RECURSIVE MaxOf(_)
MaxOf(scores) ==
    IF Len(scores) = 1 THEN scores[1]
    ELSE LET rest == MaxOf(Tail(scores))
         IN  IF RLt(rest, scores[1]) THEN scores[1] ELSE rest

\* a plausible slip: any positive contribution taken as enough
ExceedsTenth_any(ratio) == RLt(Zero, ratio)

\* ... > 0.1
ExceedsTenth(ratio) == RLt(Norm(1, 10), ratio)

_addresses_nutritional_gaps(food, gaps) ==
    LET scores == GapScores(food, gaps, 1)
    IN  Len(scores) > 0 /\ ExceedsTenth(MaxOf(scores))

SimilarityCheckNutrients == <<"calories", "protein", "fat", "carbs">>

\* a plausible slip: the size of the difference compared, whatever its sign
TooClose_abs(percentage_diff) == RLt(RAbs(percentage_diff), R(20))

\* ... ['percentage_diff'] < 20
TooClose(percentage_diff) == RLt(percentage_diff, R(20))

\* the loop over current_intake from item i on; the value is a boolean
RECURSIVE SimilarFrom(_, _, _, _)
SimilarFrom(table, food, current_intake, i) ==
    IF i > Len(current_intake) THEN Ok(FALSE)
    ELSE IF "food_name" \notin DOMAIN food THEN Raise("KeyError")
    ELSE LET compared == compare_foods(table, food["food_name"], current_intake[i].food,
                                       [given |-> TRUE, list |-> SimilarityCheckNutrients])
         IN  IF compared.status # "ok" THEN compared
             ELSE IF TooClose(compared.value.comparison["calories"].percentage_diff)
             THEN Ok(TRUE)
             ELSE SimilarFrom(table, food, current_intake, i + 1)

\* a plausible slip: `return False` inside the loop, so that the first item decides
_is_similar_to_first_item(table, food, current_intake) ==
    SimilarFrom(table, food, SubSeq(current_intake, 1, Smaller(1, Len(current_intake))), 1)

_is_similar_to_current_intake(table, food, current_intake) ==
    SimilarFrom(table, food, current_intake, 1)

\* the sum of value / gap over the open gaps, from gap i on
RECURSIVE GapScoreFrom(_, _, _)
GapScoreFrom(food, gaps, i) ==
    IF i > Len(GapNames) THEN Zero
    ELSE LET gap == gaps[GapNames[i]]
         IN  RAdd(IF RLt(Zero, gap) THEN RDiv(SeriesGet(food, GapNames[i]), gap) ELSE Zero,
                  GapScoreFrom(food, gaps, i + 1))

\* a plausible slip: `if gap:` for `if gap > 0`, so that a negative gap divides
_nutritional_gap_score_truthy(food, gaps) ==
    LET Part(n) == IF gaps[n] # Zero THEN RDiv(SeriesGet(food, n), gaps[n]) ELSE Zero
    IN  RAdd(Part("calories"), RAdd(Part("protein"), Part("fiber")))

_nutritional_gap_score(food, gaps) == GapScoreFrom(food, gaps, 1)

\* the frame left by the restrictions from tag i on; all_foods['column'] raises
\* KeyError for a column the table lacks
RECURSIVE ApplyRestrictions(_, _, _, _)
ApplyRestrictions(all_foods, header, dietary_restrictions, i) ==
    IF i > Len(dietary_restrictions) THEN OkList(all_foods)
    ELSE LET restriction == dietary_restrictions[i]
         IN  IF restriction = "gluten-free"
             THEN IF "gluten_free" \notin header THEN Raise("KeyError")
                  ELSE ApplyRestrictions(
                           SelectSeq(all_foods, LAMBDA row : row["gluten_free"] = TRUE),
                           header, dietary_restrictions, i + 1)
             ELSE IF restriction = "vegan"
             THEN IF "category" \notin header THEN Raise("KeyError")
                  ELSE ApplyRestrictions(
                           SelectSeq(all_foods,
                                     LAMBDA row : row["category"]
                                                    \in {"vegetables", "fruits", "legumes"}),
                           header, dietary_restrictions, i + 1)
             ELSE IF restriction = "dairy-free"
             THEN IF "category" \notin header THEN Raise("KeyError")
                  ELSE ApplyRestrictions(
                           SelectSeq(all_foods, LAMBDA row : row["category"] # "dairy"),
                           header, dietary_restrictions, i + 1)
             ELSE ApplyRestrictions(all_foods, header, dietary_restrictions, i + 1)

\* all_foods = all_foods[mask] binds the local name to a new frame: the table of
\* the database is the one it was
TableAfterFiltering_inplace(table, filtered) == filtered

TableAfterFiltering(table, filtered) == table

\* len(recommended_foods) >= num_recommendations * 2
EnoughCollected(recommended_foods, num_recommendations) ==
    Len(recommended_foods) >= num_recommendations * 2

\* the loop over all_foods.iterrows() from row i on
RECURSIVE CollectFrom(_, _, _, _, _, _, _)
CollectFrom(table, all_foods, gaps, current_intake, num_recommendations, i, collected) ==
    IF i > Len(all_foods) THEN OkList(collected)
    ELSE IF ~_addresses_nutritional_gaps(all_foods[i], gaps)
    THEN CollectFrom(table, all_foods, gaps, current_intake,
                     num_recommendations, i + 1, collected)
    ELSE LET similar == _is_similar_to_current_intake(table, all_foods[i], current_intake)
         IN  IF similar.status # "ok" THEN similar
             ELSE IF similar.value
             THEN CollectFrom(table, all_foods, gaps, current_intake,
                              num_recommendations, i + 1, collected)
             ELSE LET appended == Append(collected, all_foods[i])
                  IN  IF EnoughCollected(appended, num_recommendations)
                      THEN OkList(appended)
                      ELSE CollectFrom(table, all_foods, gaps, current_intake,
                                       num_recommendations, i + 1, appended)

\* x placed after the last element whose score is not smaller
RECURSIVE InsertByScoreDescending(_, _)
InsertByScoreDescending(sorted, x) ==
    IF sorted = <<>> THEN <<x>>
    ELSE IF RLt(Head(sorted).score, x.score) THEN <<x>> \o sorted
    ELSE <<Head(sorted)>> \o InsertByScoreDescending(Tail(sorted), x)

\* list.sort(key=score, reverse=True): descending and stable
RECURSIVE SortByScoreDescending(_)
SortByScoreDescending(s) ==
    IF s = <<>> THEN <<>>
    ELSE InsertByScoreDescending(SortByScoreDescending(SubSeq(s, 1, Len(s) - 1)), s[Len(s)])

\* the columns a returned recommendation is built from
SummaryColumns == {"food_name", "calories", "protein", "carbs", "fat", "fiber", "category"}

FoodSummary(food) == [c \in SummaryColumns |-> food[c]]

\* current_intake is a list of records with fields food and quantity;
\* dietary_restrictions is a list of tags, empty for None
get_personalized_recommendations(table, header, user_profile, current_intake, dietary_restrictions, num_recommendations) ==
    LET current_nutrition ==
            analyze_daily_intake(table,
                                 [i \in 1..Len(current_intake) |-> current_intake[i].food],
                                 [i \in 1..Len(current_intake) |-> current_intake[i].quantity])
    IN  IF current_nutrition.status # "ok" THEN current_nutrition
        ELSE LET nutritional_gaps ==
                     _calculate_nutritional_gaps(current_nutrition.value, user_profile)
             IN  IF nutritional_gaps.status # "ok" THEN nutritional_gaps
                 ELSE LET all_foods == ApplyRestrictions(table, header, dietary_restrictions, 1)
                      IN  IF all_foods.status # "ok" THEN all_foods
                          ELSE LET recommended_foods ==
                                       CollectFrom(table, all_foods.list,
                                                   nutritional_gaps.value, current_intake,
                                                   num_recommendations, 1, <<>>)
                               IN  IF recommended_foods.status # "ok" THEN recommended_foods
                                   ELSE LET scored ==
                                                [i \in 1..Len(recommended_foods.list) |->
                                                    [food |-> recommended_foods.list[i],
                                                     score |-> _nutritional_gap_score(
                                                                  recommended_foods.list[i],
                                                                  nutritional_gaps.value)]]
                                            top == Slice(SortByScoreDescending(scored),
                                                         num_recommendations)
                                        IN  IF top # <<>> /\ ~(SummaryColumns \subseteq header)
                                            THEN Raise("KeyError")
                                            ELSE OkList([i \in 1..Len(top) |->
                                                            FoodSummary(top[i].food)])

\* the table of the database after a call of find_similar_foods
TableAfterSimilar(table, header, category) ==
    IF category # "" /\ "category" \in header
    THEN TableAfterFiltering(table, SelectSeq(table, LAMBDA row : row["category"] = category))
    ELSE table

\* the table of the database after a call of get_personalized_recommendations
TableAfterRecommendations(table, header, dietary_restrictions) ==
    LET all_foods == ApplyRestrictions(table, header, dietary_restrictions, 1)
    IN  IF all_foods.status = "ok" THEN TableAfterFiltering(table, all_foods.list) ELSE table

----------------------------------------------------------------------------
(* The BMI classes and the weight branches: nutrition_engine.py *)

\* a plausible slip: "<=" for "<" at the three boundaries
classify_bmi_inclusive(bmi) ==
    IF ~RLt(Norm(185, 10), bmi) THEN "Underweight"
    ELSE IF ~RLt(R(25), bmi) THEN "Normal weight"
    ELSE IF ~RLt(R(30), bmi) THEN "Overweight"
    ELSE "Obesity"

classify_bmi(bmi) ==
    IF RLt(bmi, Norm(185, 10)) THEN "Underweight"
    ELSE IF RLt(bmi, R(25)) THEN "Normal weight"
    ELSE IF RLt(bmi, R(30)) THEN "Overweight"
    ELSE "Obesity"

base_proteins ==
    <<"Lean chicken breast", "Fish (salmon, tuna)", "Eggs", "Greek yogurt", "Tofu", "Lentils">>

\* protein_sources and avoid_foods as the BMI step of get_food_recommendations
\* sets them (the steps on the activity, the health conditions and the genetic
\* traits do not read the BMI)
get_food_recommendations(bmi) ==
    IF RLt(bmi, Norm(185, 10))
    THEN [protein_sources |-> base_proteins \o <<"Protein shakes", "Nut butters">>,
          avoid_foods |-> <<>>]
    ELSE IF RLt(R(25), bmi)
    THEN [protein_sources |->
              <<"Lean proteins: Lean chicken breast, Fish (salmon, tuna), Eggs, Greek yogurt">>,
          avoid_foods |-> <<"Processed foods", "Sugary drinks", "Refined carbs",
                            "Fried foods">>]
    ELSE [protein_sources |-> base_proteins, avoid_foods |-> <<>>]

\* the BMI-based recommendations of recommend_nutrition, the ones appended
\* first (the later ones do not read the BMI)
recommend_nutrition(bmi) ==
    IF RLt(bmi, Norm(185, 10))
    THEN <<"Focus on healthy weight gain", "Eat frequent, smaller meals",
           "Consider protein smoothies between meals">>
    ELSE IF RLt(R(25), bmi)
    THEN <<"Focus on sustainable weight loss", "Practice portion control",
           "Increase water intake before meals">>
    ELSE <<"Maintain your healthy weight">>

----------------------------------------------------------------------------
(* The calls of a client on the loaded catalog *)

QueryNames == {Apple, apple, APPLE, Banana, Leek, Water, Mango}

\* the (food, grams) pairs of the lists aggregated: a catalog food in both
\* quantities, the same food in other letters, another food, an unknown food
EntryPairs == {<<Apple, 200>>, <<apple, 200>>, <<Banana, 50>>, <<Banana, 200>>, <<Mango, 50>>}

Entries == UNION {[1..k -> EntryPairs] : k \in 0..MaxEntries}

GapNutrients == {"calories", "protein"}

IntakeValues == {R(0), R(1000), Dec(15999), R(1600), R(1700)}

TargetValues == {R(0), R(2000)}

Dicts(keys, values) == UNION {[d -> values] : d \in SUBSET keys}

NutrientArgs ==
    {[given |-> FALSE],
     [given |-> TRUE, list |-> <<"calories", "protein", "fat", "carbs">>]}

CategoryArgs == {"", "fruits", "vegetables", "dairy"}

SearchQueries == {<<>>, <<"A", "n">>, apple, Mango}

\* the members of FoodCategory, and a value that is not one
CategoryKeys == FoodCategory \cup {"legumes"}

DefaultProfile ==
    [age |-> R(30), weight |-> R(70), height |-> R(170), gender |-> Male,
     activity_level |-> moderate]

SmallProfile ==
    [age |-> R(120), weight |-> R(30), height |-> R(100), gender |-> female,
     activity_level |-> sedentary]

\* the profile nutrigenie_app.py builds: 'activity' for 'activity_level'
AppProfile ==
    [age |-> R(30), weight |-> R(70), height |-> R(170), gender |-> Male,
     activity |-> Moderate]

Profiles == {DefaultProfile, SmallProfile, AppProfile}

IntakeItems ==
    {[food |-> Apple, quantity |-> 200], [food |-> Water, quantity |-> 50],
     [food |-> Mango, quantity |-> 50], [food |-> Banana, quantity |-> 3000]}

Intakes == UNION {[1..k -> IntakeItems] : k \in 0..MaxIntake}

RestrictionArgs == {<<>>, <<"vegan">>, <<"gluten-free">>}

\* the smallest count and the largest one
RecommendationCounts == {1, MaxRecommendations}

\* BMI values, in tenths
BmiTenths == {0, 184, 185, 186, 249, 250, 251, 299, 300, 301, 450}

\* the client is between two calls, and holds no result
Idle == [op |-> "idle"]

NoOutcome == [status |-> "idle"]

Init ==
    /\ columns \in Headers
    /\ \E rows \in Catalogs : food_data = _load_food_data(rows, columns)
    /\ food_by_category = _categorize_food(food_data)
    /\ logged_foods = <<>>
    /\ call = Idle
    /\ outcome = NoOutcome

Lookup ==
    \E food_name \in QueryNames :
        /\ call = Idle
        /\ call' = [op |-> "get_food_nutrition", food_name |-> food_name]
        /\ outcome' = get_food_nutrition(food_data, food_name)
        /\ UNCHANGED <<food_data, columns, food_by_category, logged_foods>>

Aggregate ==
    \E entries \in Entries :
        /\ call = Idle
        /\ call' = [op |-> "analyze_daily_intake", entries |-> entries]
        /\ outcome' = analyze_daily_intake(food_data,
                                           [i \in 1..Len(entries) |-> entries[i][1]],
                                           [i \in 1..Len(entries) |-> entries[i][2]])
        /\ UNCHANGED <<food_data, columns, food_by_category, logged_foods>>

Gaps ==
    \E intake \in Dicts(GapNutrients, IntakeValues),
       targets \in Dicts(GapNutrients, TargetValues) :
        /\ call = Idle
        /\ call' = [op |-> "identify_nutritional_gaps", intake |-> intake,
                    targets |-> targets]
        /\ outcome' = identify_nutritional_gaps(intake, targets)
        /\ UNCHANGED <<food_data, columns, food_by_category, logged_foods>>

Compare ==
    \E food1 \in QueryNames, food2 \in QueryNames, nutrients \in NutrientArgs :
        /\ call = Idle
        /\ call' = [op |-> "compare_foods", food1 |-> food1, food2 |-> food2,
                    nutrients |-> nutrients]
        /\ outcome' = compare_foods(food_data, food1, food2, nutrients)
        /\ UNCHANGED <<food_data, columns, food_by_category, logged_foods>>

FindSimilar ==
    \E food \in QueryNames, category \in CategoryArgs, max_results \in 0..MaxResultsTop :
        /\ call = Idle
        /\ call' = [op |-> "find_similar_foods", food |-> food, category |-> category,
                    max_results |-> max_results]
        /\ outcome' = find_similar_foods(food_data, columns, food, category, max_results)
        /\ food_data' = TableAfterSimilar(food_data, columns, category)
        /\ UNCHANGED <<columns, food_by_category, logged_foods>>

Search ==
    \E query \in SearchQueries :
        /\ call = Idle
        /\ call' = [op |-> "search_food", query |-> query]
        /\ outcome' = search_food(food_data, query)
        /\ UNCHANGED <<food_data, columns, food_by_category, logged_foods>>

FoodsInCategory ==
    \E category \in CategoryKeys :
        /\ call = Idle
        /\ call' = [op |-> "get_food_by_category", category |-> category]
        /\ outcome' = get_food_by_category(food_by_category, category)
        /\ UNCHANGED <<food_data, columns, food_by_category, logged_foods>>

Recommend ==
    \E user_profile \in Profiles, current_intake \in Intakes,
       dietary_restrictions \in RestrictionArgs,
       num_recommendations \in RecommendationCounts :
        /\ call = Idle
        /\ call' = [op |-> "get_personalized_recommendations",
                    user_profile |-> user_profile,
                    current_intake |-> current_intake,
                    dietary_restrictions |-> dietary_restrictions,
                    num_recommendations |-> num_recommendations]
        /\ outcome' = get_personalized_recommendations(food_data, columns, user_profile,
                                                       current_intake, dietary_restrictions,
                                                       num_recommendations)
        /\ food_data' = TableAfterRecommendations(food_data, columns, dietary_restrictions)
        /\ UNCHANGED <<columns, food_by_category, logged_foods>>

ClassifyBmi ==
    \E tenths \in BmiTenths :
        /\ call = Idle
        /\ call' = [op |-> "classify_bmi", bmi |-> Dec(tenths)]
        /\ outcome' = Ok(classify_bmi(Dec(tenths)))
        /\ UNCHANGED <<food_data, columns, food_by_category, logged_foods>>

\* the profile page: the class, the plan and the foods of one BMI value
ProfileAdvice ==
    \E tenths \in BmiTenths :
        /\ call = Idle
        /\ call' = [op |-> "profile_advice", bmi |-> Dec(tenths)]
        /\ outcome' = Ok([bmi_status |-> classify_bmi(Dec(tenths)),
                          nutrition_plan |-> recommend_nutrition(Dec(tenths)),
                          food_recommendations |-> get_food_recommendations(Dec(tenths))])
        /\ UNCHANGED <<food_data, columns, food_by_category, logged_foods>>

\* the client has used the result of its call and is ready for the next one
Return ==
    /\ call # Idle
    /\ call' = Idle
    /\ outcome' = NoOutcome
    /\ UNCHANGED <<food_data, columns, food_by_category, logged_foods>>

Next ==
    \/ Lookup \/ Search \/ FoodsInCategory \/ Aggregate \/ Gaps \/ Compare
    \/ FindSimilar \/ Recommend \/ ClassifyBmi \/ ProfileAdvice \/ Return

Spec == Init /\ [][Next]_vars

----------------------------------------------------------------------------
(* The load of a table whose names match several keyword lists *)

Milk == <<"M", "i", "l", "k">>
CheesePie == <<"C", "h", "e", "e", "s", "e", " ", "P", "i", "e">>
HamSalad == <<"H", "a", "m", " ", "S", "a", "l", "a", "d">>
VeggieChips == <<"V", "e", "g", "g", "i", "e", " ", "C", "h", "i", "p", "s">>
ApplePie == <<"A", "p", "p", "l", "e", " ", "P", "i", "e">>
RiceCake == <<"R", "i", "c", "e", " ", "C", "a", "k", "e">>
NutPie == <<"N", "u", "t", " ", "P", "i", "e">>
Pie == <<"P", "i", "e">>
Steak == <<"S", "t", "e", "a", "k">>
GoatMilkCheese == <<"G", "o", "a", "t", " ", "M", "i", "l", "k", " ", "C", "h", "e", "e", "s", "e">>

\* names that match beverages and dairy, dairy and desserts, meat and
\* vegetables, vegetables and snacks, fruits and desserts, grains and
\* desserts, snacks and desserts, desserts alone, beverages by the letters
\* "tea", no list, and beverages and dairy by the two dairy keywords
LoadNames ==
    {Milk, CheesePie, HamSalad, VeggieChips, ApplePie, RiceCake, NutPie, Pie, Steak, Leek,
     GoatMilkCheese}

\* a CSV line of a food, its nutrient cells all zero
NamedRow(name) ==
    [name |-> name, calories |-> Zero, fat |-> Zero, carbs |-> Zero,
     protein |-> Zero, fiber |-> Zero, sodium |-> Zero, vitamin_c |-> Zero,
     iron |-> Zero, calcium |-> Zero, category |-> ""]

\* the tables of MaxNamed lines over these names, a name possibly on two lines
NamedCatalogs == [1..MaxNamed -> {NamedRow(name) : name \in LoadNames}]

NameQueries == {<<>>, <<"p", "i", "e">>, <<"E", "A">>, Mango}

InitLoad ==
    /\ columns \in Headers
    /\ \E rows \in NamedCatalogs : food_data = _load_food_data(rows, columns)
    /\ food_by_category = _categorize_food(food_data)
    /\ logged_foods = <<>>
    /\ call = Idle
    /\ outcome = NoOutcome

SearchLoaded ==
    \E query \in NameQueries :
        /\ call = Idle
        /\ call' = [op |-> "search_food", query |-> query]
        /\ outcome' = search_food(food_data, query)
        /\ UNCHANGED <<food_data, columns, food_by_category, logged_foods>>

NextLoad == SearchLoaded \/ FoodsInCategory \/ Return

SpecLoad == InitLoad /\ [][NextLoad]_vars

----------------------------------------------------------------------------
(* The intake log of the app: nutrigenie_app.py, create_food_logger *)

\* what the user types in "Search for food:" (an empty text searches nothing)
LogQueries == {<<"a", "p", "p">>, <<"B", "A">>, Mango}

LogQuantities == {50, 200}

\* an entry of the log; its timestamp, which no total reads, is left out
LogEntry(food, quantity) == [food |-> food, quantity |-> quantity]

\* a plausible slip: pop() for pop(i), the last entry removed
RemoveAt_last(log, i) == SubSeq(log, 1, Len(log) - 1)

\* logged_foods.pop(i), i counted from 1
RemoveAt(log, i) == SubSeq(log, 1, i - 1) \o SubSeq(log, i + 1, Len(log))

\* no summary is shown for an empty log
NoSummary == [status |-> "none"]

\* the rerun of the page: "Today's Nutrition Summary" of the log
DailySummary(table, log) ==
    IF log = <<>> THEN NoSummary
    ELSE analyze_daily_intake(table, [i \in 1..Len(log) |-> log[i].food],
                              [i \in 1..Len(log) |-> log[i].quantity])

\* "Add Food": the food is one of those the search has listed
AddFood ==
    \E query \in LogQueries, quantity \in LogQuantities :
        LET matching_foods == search_food(food_data, query).list
        IN  \E k \in 1..Len(matching_foods) :
                /\ Len(logged_foods) < MaxLog
                /\ logged_foods' = Append(logged_foods, LogEntry(matching_foods[k], quantity))
                /\ call' = [op |-> "add_food", food |-> matching_foods[k],
                            quantity |-> quantity]
                /\ outcome' = DailySummary(food_data, logged_foods')
                /\ UNCHANGED <<food_data, columns, food_by_category>>

\* the remove button of entry i
RemoveFood ==
    \E i \in 1..Len(logged_foods) :
        /\ logged_foods' = RemoveAt(logged_foods, i)
        /\ call' = [op |-> "remove_food", index |-> i]
        /\ outcome' = DailySummary(food_data, logged_foods')
        /\ UNCHANGED <<food_data, columns, food_by_category>>

\* "Clear All Foods", shown under a log that is not empty
ClearFoods ==
    /\ logged_foods # <<>>
    /\ logged_foods' = <<>>
    /\ call' = [op |-> "clear_foods"]
    /\ outcome' = DailySummary(food_data, logged_foods')
    /\ UNCHANGED <<food_data, columns, food_by_category>>

NextLog == AddFood \/ RemoveFood \/ ClearFoods

SpecLog == Init /\ [][NextLog]_vars

----------------------------------------------------------------------------
(* The calorie need of a profile, over the gender and activity keys *)

MALE == <<"M", "A", "L", "E">>
Female == <<"F", "e", "m", "a", "l", "e">>
Other == <<"O", "t", "h", "e", "r">>
Sedentary == <<"S", "e", "d", "e", "n", "t", "a", "r", "y">>
Heavy == <<"H", "e", "a", "v", "y">>
\* the third activity level of nutrition_engine.py
Active == <<"A", "c", "t", "i", "v", "e">>

GenderKeys == {male, Male, MALE, female, Female, Other}

ActivityKeys ==
    {sedentary, light, moderate, heavy, very_heavy, Sedentary, Moderate, Heavy, Active}

\* age, weight and height: the defaults, a small body and a large one
Bodies == {<<30, 70, 170>>, <<120, 30, 100>>, <<18, 300, 250>>}

CalorieNeeds ==
    \E body \in Bodies, gender \in GenderKeys, activity_level \in ActivityKeys :
        /\ call = Idle
        /\ call' = [op |-> "_calculate_calorie_needs", age |-> R(body[1]),
                    weight |-> R(body[2]), height |-> R(body[3]), gender |-> gender,
                    activity_level |-> activity_level]
        /\ outcome' = Ok(_calculate_calorie_needs(R(body[1]), R(body[2]), R(body[3]),
                                                  gender, activity_level))
        /\ UNCHANGED <<food_data, columns, food_by_category, logged_foods>>

NextNeeds == CalorieNeeds \/ Return

SpecNeeds == Init /\ [][NextNeeds]_vars

----------------------------------------------------------------------------
(* What the claims speak of, stated on the table itself *)

\* the table column that holds a nutrient
NutrientColumn(n) ==
    CASE n = "calories" -> "Caloric Value"
      [] n = "fat" -> "Fat"
      [] n = "carbs" -> "Carbohydrates"
      [] n = "protein" -> "Protein"
      [] n = "fiber" -> "Dietary Fiber"
      [] n = "sodium" -> "Sodium"
      [] n = "vitamin_c" -> "Vitamin C"
      [] n = "iron" -> "Iron"
      [] n = "calcium" -> "Calcium"

\* the rows whose stored name equals name, ignoring case
RowsNamed(name) ==
    {i \in 1..Len(food_data) : Lower(food_data[i]["food"]) = Lower(name)}

InCatalog(name) == RowsNamed(name) # {}

\* the first row whose stored name equals name, ignoring case
RowNamed(name) ==
    LET key == Lower(name)
    IN  food_data[CHOOSE i \in 1..Len(food_data) :
                    /\ Lower(food_data[i]["food"]) = key
                    /\ \A j \in 1..(i - 1) : Lower(food_data[j]["food"]) # key]

CatalogValue(name, n) == RowNamed(name)[NutrientColumn(n)]

SeqOf(entries, f) == [i \in 1..Len(entries) |-> entries[i][f]]

\* the sum over the entries in idx of value * grams, divided by 100
RECURSIVE WeightedSum(_, _, _)
WeightedSum(entries, idx, n) ==
    IF idx = {} THEN Zero
    ELSE LET i == CHOOSE k \in idx : TRUE
         IN  RAdd(RMul(CatalogValue(entries[i][1], n), R(entries[i][2])),
                  WeightedSum(entries, idx \ {i}, n))

ExpectedTotal(entries, n) == RDiv(WeightedSum(entries, 1..Len(entries), n), R(100))

Permuted(entries, p) == [i \in 1..Len(entries) |-> entries[p[i]]]

KnownOnly(entries) == SelectSeq(entries, LAMBDA e : InCatalog(e[1]))

----------------------------------------------------------------------------
(* C1 *)

\* C1: for a list of (food, grams) entries whose foods are all in the catalog,
\* aggregate returns, for each of the 8 tracked nutrients, the sum over the
\* entries of (catalog value) * grams / 100; every permutation of the list
\* gives the same totals; the empty list gives all-zero totals; Apple 200 g
\* gives calories 104.
C1_AggregateIsScaledSum ==
    (call.op = "analyze_daily_intake"
     /\ \A i \in 1..Len(call.entries) : InCatalog(call.entries[i][1]))
    => /\ outcome.status = "ok"
       /\ DOMAIN outcome.value = TrackedNutrients
       /\ \A n \in TrackedNutrients : outcome.value[n] = ExpectedTotal(call.entries, n)
       /\ \A p \in Permutations(1..Len(call.entries)) :
            LET other == analyze_daily_intake(food_data,
                                              SeqOf(Permuted(call.entries, p), 1),
                                              SeqOf(Permuted(call.entries, p), 2))
            IN  other.status = "ok" /\ other.value = outcome.value
       /\ (call.entries = <<>> => \A n \in TrackedNutrients : outcome.value[n] = Zero)
       /\ (call.entries = << <<Apple, 200>> >> => outcome.value["calories"] = R(104))

\* two different catalog foods, in different quantities, have been aggregated
C1_Witness ==
    /\ call.op = "analyze_daily_intake"
    /\ call.entries = << <<Banana, 50>>, <<apple, 200>> >>
    /\ InCatalog(Banana) /\ InCatalog(apple)
    /\ outcome.status = "ok"
    /\ outcome.value["calories"] = Dec(1485)

(* C2 *)

\* C2: aggregate never fails because of an unknown food: the entry is skipped
\* and the totals are those of the list without the unknown entries.
C2_UnknownFoodSkipped ==
    call.op = "analyze_daily_intake"
    => /\ outcome.status = "ok"
       /\ LET known == analyze_daily_intake(food_data, SeqOf(KnownOnly(call.entries), 1),
                                            SeqOf(KnownOnly(call.entries), 2))
          IN  known.status = "ok" /\ outcome.value = known.value

(* C3 *)

\* C3: lookup(name) returns the record of the food whose stored name equals
\* name ignoring case, and yields the absent-record value None when no row
\* matches, rather than any other failure.
C3_LookupFoundOrNone ==
    call.op = "get_food_nutrition"
    => /\ outcome.status = "ok"
       /\ InCatalog(call.food_name)
            => /\ outcome.value # None
               /\ outcome.value.food_name = RowNamed(call.food_name)["food"]
       /\ ~InCatalog(call.food_name) => outcome.value = None

(* C4 *)

\* the nutrients of targets whose current value is under 80% of the target
Deficient(intake, targets) ==
    {n \in DOMAIN targets :
        LET c == IF n \in DOMAIN intake THEN intake[n] ELSE Zero
        IN  10 * c.n * targets[n].d < 8 * targets[n].n * c.d}

\* C4: gaps(totals, targets) has an entry for exactly the nutrients n of
\* targets with current < 0.8 * targets[n] (current is totals[n], or 0 when n
\* is absent from totals); each entry has deficit = target - current and
\* percentage = 100 * current / target; target 2000 with current 1000 gives
\* percentage 50, and with current 1700 gives no entry.
C4_GapsBelowEightyPercent ==
    call.op = "identify_nutritional_gaps"
    => /\ outcome.status = "ok"
       /\ DOMAIN outcome.value = Deficient(call.intake, call.targets)
       /\ \A n \in DOMAIN outcome.value :
            LET c == IF n \in DOMAIN call.intake THEN call.intake[n] ELSE Zero
                t == call.targets[n]
                e == outcome.value[n]
            IN  /\ e.current = c
                /\ e.target = t
                /\ e.deficit = Norm(t.n * c.d - c.n * t.d, t.d * c.d)
                /\ e.percentage = Norm(100 * c.n * t.d, c.d * t.n)
       /\ ("calories" \in DOMAIN call.intake /\ "calories" \in DOMAIN call.targets
           /\ call.targets["calories"] = R(2000))
          => /\ call.intake["calories"] = R(1000)
                => /\ "calories" \in DOMAIN outcome.value
                   /\ outcome.value["calories"].percentage = R(50)
             /\ call.intake["calories"] = R(1700) => "calories" \notin DOMAIN outcome.value

\* one nutrient flagged, one at the threshold left out, one absent from totals flagged
C4_Witness ==
    /\ call.op = "identify_nutritional_gaps"
    /\ DOMAIN call.targets = {"calories", "protein"}
    /\ call.targets["calories"] = R(2000) /\ call.targets["protein"] = R(2000)
    /\ DOMAIN call.intake = {"calories"}
    /\ call.intake["calories"] = R(1600)
    /\ outcome.status = "ok"
    /\ DOMAIN outcome.value = {"protein"}
    /\ outcome.value["protein"].percentage = Zero

(* C5 *)

\* C5: for catalog foods A and B and every compared nutrient n,
\* compare(A,B)[n].difference = -compare(B,A)[n].difference, and
\* compare(A,A)[n].difference = 0.
C5_DifferenceAntisymmetric ==
    (call.op = "compare_foods" /\ InCatalog(call.food1) /\ InCatalog(call.food2))
    => /\ outcome.status = "ok"
       /\ LET swapped == compare_foods(food_data, call.food2, call.food1, call.nutrients)
          IN  /\ swapped.status = "ok"
              /\ DOMAIN swapped.value.comparison = DOMAIN outcome.value.comparison
              /\ \A n \in DOMAIN outcome.value.comparison :
                    /\ outcome.value.comparison[n].difference
                         = RNeg(swapped.value.comparison[n].difference)
                    /\ call.food1 = call.food2
                         => outcome.value.comparison[n].difference = Zero

\* two foods with different calories have been compared
C5_Witness ==
    /\ call.op = "compare_foods"
    /\ call.food1 = Banana /\ call.food2 = Leek
    /\ outcome.status = "ok"
    /\ outcome.value.comparison["calories"].difference = R(74)

\* compare(A, A) has been called
C5_WitnessSame ==
    /\ call.op = "compare_foods"
    /\ call.food1 = Banana /\ call.food2 = Banana
    /\ outcome.status = "ok"

(* C6 *)

\* C6: compare(foodA, foodB) fails with the comparator's "not found in
\* database" error (ValueError) whenever foodA or foodB is absent from the
\* catalog.
C6_CompareNotFound ==
    (call.op = "compare_foods" /\ (~InCatalog(call.food1) \/ ~InCatalog(call.food2)))
    => outcome.status = "ValueError"

(* C7 *)

\* (a - b) / b * 100 for b # 0
PercentOver(a, b) ==
    LET num == 100 * (a.n * b.d - b.n * a.d)
        den == a.d * b.n
    IN  IF den < 0 THEN Norm(-num, -den) ELSE Norm(num, den)

\* C7: for every nutrient, compare's percentage difference is
\* (valueA - valueB) / valueB * 100 when valueB # 0, 0 when both values are
\* zero, and 100 when valueB is zero and valueA is not.
C7_PercentageDifference ==
    (call.op = "compare_foods" /\ outcome.status = "ok")
    => \A n \in DOMAIN outcome.value.comparison :
          LET a == CatalogValue(call.food1, n)
              b == CatalogValue(call.food2, n)
              e == outcome.value.comparison[n]
          IN  /\ e.food1_value = a
              /\ e.food2_value = b
              /\ b # Zero => e.percentage_diff = PercentOver(a, b)
              /\ (a = Zero /\ b = Zero) => e.percentage_diff = Zero
              /\ (a # Zero /\ b = Zero) => e.percentage_diff = R(100)

\* a comparison with all three cases: valueB nonzero, both zero, only valueB zero
C7_Witness ==
    /\ call.op = "compare_foods"
    /\ call.food1 = Apple /\ call.food2 = Banana
    /\ outcome.status = "ok"
    /\ outcome.value.comparison["fat"].percentage_diff = Norm(-100, 3)

C7_WitnessZero ==
    /\ call.op = "compare_foods"
    /\ call.food1 = Apple /\ call.food2 = Water
    /\ outcome.status = "ok"
    /\ outcome.value.comparison["calories"].percentage_diff = R(100)

(* C8 *)

\* C8: for every nutrient (values are non-negative), better_food names the
\* food with the larger value: food A when valueA > valueB, food B when
\* valueB > valueA; Apple (calories 52) against Banana (calories 89) gives
\* food1_value 52, food2_value 89, difference -37, better_food Banana.
C8_BetterIsLarger ==
    (call.op = "compare_foods" /\ outcome.status = "ok")
    => /\ \A n \in DOMAIN outcome.value.comparison :
             LET a == CatalogValue(call.food1, n)
                 b == CatalogValue(call.food2, n)
                 e == outcome.value.comparison[n]
             IN  /\ RLt(b, a) => e.better_food = call.food1
                 /\ RLt(a, b) => e.better_food = call.food2
       /\ (call.food1 = Apple /\ call.food2 = Banana)
          => LET e == outcome.value.comparison["calories"]
             IN  /\ e.food1_value = R(52)
                 /\ e.food2_value = R(89)
                 /\ e.difference = R(-37)
                 /\ e.better_food = Banana

\* Apple has been compared with Banana, and Banana named as better in calories
C8_Witness ==
    /\ call.op = "compare_foods"
    /\ call.food1 = Apple /\ call.food2 = Banana
    /\ outcome.status = "ok"
    /\ outcome.value.comparison["calories"].better_food = Banana
    /\ outcome.value.comparison["vitamin_c"].better_food = Banana

\* the first food has the larger value and is named
C8_WitnessFirst ==
    /\ call.op = "compare_foods"
    /\ call.food1 = Banana /\ call.food2 = Water
    /\ outcome.status = "ok"
    /\ outcome.value.comparison["calories"].better_food = Banana

(* C9 *)

\* C9: findSimilar(food) never includes the target food itself in its result,
\* for every query name that lookup resolves to a catalog food, whatever the
\* letter case of the query.
C9_TargetNotInSimilar ==
    (call.op = "find_similar_foods" /\ outcome.status = "ok" /\ InCatalog(call.food))
    => \A i \in 1..Len(outcome.list) : outcome.list[i] # RowNamed(call.food)["food"]

(* C10 *)

\* the row a returned name is stored in
RowOfName(name) == CHOOSE i \in 1..Len(food_data) : food_data[i]["food"] = name

RECURSIVE SumOver(_, _, _)
SumOver(idx, f(_), acc) ==
    IF idx = {} THEN acc
    ELSE LET n == CHOOSE k \in idx : TRUE
         IN  SumOver(idx \ {n}, f, RAdd(acc, f(n)))

\* the sum over {calories, protein, fat, carbs, fiber} of the absolute
\* differences between the food called name and row i
Distance(name, i) ==
    LET AbsDiff(n) ==
            LET a == CatalogValue(name, n)
                b == food_data[i][NutrientColumn(n)]
            IN  IF RLt(a, b) THEN RSub(b, a) ELSE RSub(a, b)
    IN  SumOver({"calories", "protein", "fat", "carbs", "fiber"}, AbsDiff, Zero)

\* C10: findSimilar(food, category, maxResults) returns at most maxResults
\* names, in order of non-decreasing distance from the target (the sum of the
\* absolute differences over calories, protein, fat, carbs, fiber); names of
\* equal distance are in catalog order; with a category given, every returned
\* name is a row of that category.
C10_SimilarRanked ==
    (call.op = "find_similar_foods" /\ outcome.status = "ok" /\ InCatalog(call.food))
    => LET res == outcome.list
       IN  /\ Len(res) <= call.max_results
           /\ \A i \in 1..Len(res) : \E k \in 1..Len(food_data) : food_data[k]["food"] = res[i]
           /\ \A i, j \in 1..Len(res) :
                i < j =>
                  LET di == Distance(call.food, RowOfName(res[i]))
                      dj == Distance(call.food, RowOfName(res[j]))
                  IN  /\ ~RLt(dj, di)
                      /\ di = dj => RowOfName(res[i]) < RowOfName(res[j])
           /\ call.category # ""
                => \A i \in 1..Len(res) :
                      food_data[RowOfName(res[i])]["category"] = call.category

\* two candidates at the same distance from Apple have been returned, the one
\* stored first in the table first
C10_Witness ==
    /\ call.op = "find_similar_foods"
    /\ call.food = Apple /\ call.category = "" /\ call.max_results = 2
    /\ outcome.status = "ok"
    /\ outcome.list = <<Leek, Banana>>
    /\ Distance(Apple, RowOfName(Leek)) = Distance(Apple, RowOfName(Banana))
    /\ RowOfName(Leek) < RowOfName(Banana)

(* C11 *)

IsRecommend == call.op = "get_personalized_recommendations"

\* the totals of the intake of a recommend call, and the gaps they leave open
CallTotals ==
    analyze_daily_intake(food_data,
                         [k \in 1..Len(call.current_intake) |-> call.current_intake[k].food],
                         [k \in 1..Len(call.current_intake) |->
                             call.current_intake[k].quantity]).value

CallGaps == _calculate_nutritional_gaps(CallTotals, call.user_profile).value

OpenGaps(gaps) == {n \in {"calories", "protein", "fiber"} : gaps[n].n > 0}

ValueOf(i, n) == food_data[i][NutrientColumn(n)]

\* some open gap g with value > 0 and value / g > 0.1, that is 10 * value > g
PassesGapFilter(i, gaps) ==
    \E n \in OpenGaps(gaps) :
        /\ ValueOf(i, n).n > 0
        /\ 10 * ValueOf(i, n).n * gaps[n].d > gaps[n].n * ValueOf(i, n).d

\* the calories percentage difference of compare(row i, item)
CaloriesPercent(i, item) ==
    LET a == ValueOf(i, "calories")
        b == CatalogValue(item.food, "calories")
    IN  IF b # Zero THEN PercentOver(a, b) ELSE IF a = Zero THEN Zero ELSE R(100)

TooSimilar(i) ==
    \E k \in 1..Len(call.current_intake) :
        LET p == CaloriesPercent(i, call.current_intake[k])
        IN  p.n < 20 * p.d

\* row i is left in by the restriction tags of the call
Allowed(i) ==
    \A k \in 1..Len(call.dietary_restrictions) :
        LET tag == call.dietary_restrictions[k]
        IN  /\ tag = "vegan" => food_data[i]["category"] \in {"vegetables", "fruits", "legumes"}
            /\ tag = "dairy-free" => food_data[i]["category"] # "dairy"

\* the candidates that survive the gap filter and the similarity filter
Survivors(gaps) ==
    {i \in 1..Len(food_data) : Allowed(i) /\ PassesGapFilter(i, gaps) /\ ~TooSimilar(i)}

\* the sum over the open gaps of value / gap
Score(i, gaps) ==
    LET Ratio(n) == RDiv(ValueOf(i, n), gaps[n])
    IN  SumOver(OpenGaps(gaps), Ratio, Zero)

\* the rows of the returned foods, in the order returned
Returned == [k \in 1..Len(outcome.list) |-> RowOfName(outcome.list[k].food_name)]

\* C11: on a table that has the columns the recommender reads, recommend
\* returns at most count foods, sorted by descending score (the sum over the
\* open gaps of candidate_value / gap), and they are the count highest-scoring
\* foods among all the catalog candidates that survive the gap and similarity
\* filters: no survivor outside the result has a strictly higher score than a
\* food inside it.
C11_TopOfAllSurvivors ==
    (IsRecommend /\ outcome.status = "ok" /\ ComparatorColumns \subseteq columns)
    => LET gaps == CallGaps
           survivors == Survivors(gaps)
           returned == Returned
           score == [i \in 1..Len(food_data) |-> Score(i, gaps)]
       IN  /\ Len(returned) <= call.num_recommendations
           /\ \A k \in 1..Len(returned) : returned[k] \in survivors
           /\ \A j, k \in 1..Len(returned) :
                j < k => ~RLt(score[returned[j]], score[returned[k]])
           /\ Len(returned) = Smaller(call.num_recommendations, Cardinality(survivors))
           /\ \A i \in survivors :
                (\A k \in 1..Len(returned) : returned[k] # i)
                => \A k \in 1..Len(returned) : ~RLt(score[returned[k]], score[i])

(* C12 *)

\* the items of the intake whose food is in the catalog
KnownIntake == SelectSeq(call.current_intake, LAMBDA item : InCatalog(item.food))

\* C12: recommend called with a complete profile, no restriction and an
\* intake list that contains a food name absent from the catalog does not
\* fail: the unknown entry is skipped, and the ranked list returned is the one
\* of the intake without it.
C12_UnknownIntakeSkipped ==
    (/\ IsRecommend
     /\ ProfileKeys \subseteq DOMAIN call.user_profile
     /\ call.dietary_restrictions = <<>>
     /\ \E k \in 1..Len(call.current_intake) : ~InCatalog(call.current_intake[k].food))
    => /\ outcome.status = "ok"
       /\ outcome = get_personalized_recommendations(food_data, columns, call.user_profile,
                                                     KnownIntake, call.dietary_restrictions,
                                                     call.num_recommendations)

(* C13 *)

\* the multiplier of an activity key, in thousandths
MultiplierThousandths(key) ==
    CASE Lower(key) = sedentary -> 1200
      [] Lower(key) = light -> 1375
      [] Lower(key) = heavy -> 1725
      [] Lower(key) = very_heavy -> 1900
      [] OTHER -> 1550

\* (10 * weight + 6.25 * height - 5 * age + s) * multiplier, s = 5 for male and
\* -161 otherwise, for a profile of whole numbers
CalorieNeed(profile) ==
    LET hundredths == 1000 * profile["weight"].n + 625 * profile["height"].n
                        - 500 * profile["age"].n
                        + (IF Lower(profile["gender"]) = male THEN 500 ELSE -16100)
    IN  Norm(hundredths * MultiplierThousandths(profile["activity_level"]), 100000)

\* every column a restriction tag of the call filters on is in the table
RestrictionColumnsPresent ==
    \A k \in 1..Len(call.dietary_restrictions) :
        LET tag == call.dietary_restrictions[k]
        IN  /\ tag \in {"vegan", "dairy-free"} => "category" \in columns
            /\ tag = "gluten-free" => "gluten_free" \in columns

ApplicableRestrictions ==
    SelectSeq(call.dietary_restrictions,
              LAMBDA tag : /\ tag \in {"vegan", "dairy-free"} => "category" \in columns
                           /\ tag = "gluten-free" => "gluten_free" \in columns)

\* C14: when a restriction tag (gluten-free, vegan, dairy-free) is passed to
\* recommend and the table does not have the column that tag filters on (the
\* gluten_free flag or the category column), the filter is a no-op: the call
\* ends as it would have ended without that tag, and does not raise because
\* of it.
C14_MissingAttributeNoOp ==
    (IsRecommend /\ ~RestrictionColumnsPresent)
    => outcome = get_personalized_recommendations(food_data, columns, call.user_profile,
                                                  call.current_intake,
                                                  ApplicableRestrictions,
                                                  call.num_recommendations)

(* C15 *)

\* the keyword lists in the order they are tested
Buckets ==
    <<[category |-> "beverages", keywords |-> beverage_keywords],
      [category |-> "dairy", keywords |-> dairy_keywords],
      [category |-> "meat", keywords |-> meat_keywords],
      [category |-> "vegetables", keywords |-> vegetable_keywords],
      [category |-> "fruits", keywords |-> fruit_keywords],
      [category |-> "grains", keywords |-> grain_keywords],
      [category |-> "snacks", keywords |-> snack_keywords],
      [category |-> "desserts", keywords |-> dessert_keywords]>>

MatchesBucket(food_name, b) ==
    \E k \in 1..Len(Buckets[b].keywords) : Contains(food_name, Buckets[b].keywords[k])

\* the buckets a lower-cased name matches
MatchedBuckets(food_name) == {b \in 1..Len(Buckets) : MatchesBucket(food_name, b)}

\* the number of places of a list that hold x
Occurrences(list, x) == Cardinality({k \in 1..Len(list) : list[k] = x})

\* C15: classification at load places each catalog row in at most one
\* category: the buckets are tested in the order beverages, dairy, meat,
\* vegetables, fruits, grains, snacks, desserts by substring containment, the
\* first matching bucket wins (its list holds the lower-cased name once per
\* row of that name), a name matching no bucket appears in no list, and no
\* name appears in the lists of two different categories.
C15_FirstBucketWins ==
    /\ DOMAIN food_by_category = FoodCategory
    /\ \A i \in 1..Len(food_data) :
         LET food_name == Lower(food_data[i]["food"])
             matched == MatchedBuckets(food_name)
         IN  /\ matched = {}
                  => \A c \in FoodCategory : Occurrences(food_by_category[c], food_name) = 0
             /\ matched # {}
                  => LET first == CHOOSE b \in matched : \A other \in matched : b <= other
                     IN  \A c \in FoodCategory :
                            Occurrences(food_by_category[c], food_name)
                              = IF c = Buckets[first].category
                                THEN Occurrences(LowerNames(food_data), food_name)
                                ELSE 0
    /\ \A c \in FoodCategory :
         \A k \in 1..Len(food_by_category[c]) :
            /\ Occurrences(LowerNames(food_data), food_by_category[c][k]) > 0
            /\ \A d \in FoodCategory \ {c} :
                  Occurrences(food_by_category[d], food_by_category[c][k]) = 0

\* a name that matches beverages and dairy is in the beverages list only, and
\* a name that matches dairy and desserts in the dairy list only
C15_Witness ==
    /\ LowerNames(food_data) = <<Lower(Milk), Lower(CheesePie)>>
    /\ food_by_category["beverages"] = <<Lower(Milk)>>
    /\ food_by_category["dairy"] = <<Lower(CheesePie)>>
    /\ food_by_category["desserts"] = <<>>
    /\ call.op = "get_food_by_category" /\ call.category = "dairy"
    /\ outcome.list = <<Lower(CheesePie)>>

(* C16 *)

\* C16: after the catalog is loaded, no lookup, search, foodsInCategory,
\* aggregate, gaps, compare, findSimilar or recommend call (recommend with
\* restriction filters included) changes the food table or the category
\* lists: every step leaves both as they were, so both are equal to their
\* values right after load in every reachable state.
C16_CatalogReadOnly ==
    [][food_data' = food_data /\ food_by_category' = food_by_category]_vars

\* recommend has returned after a restriction filter left a row of the table out
C16_Witness ==
    /\ IsRecommend
    /\ call.dietary_restrictions = <<"vegan">>
    /\ outcome.status = "ok"
    /\ Len(outcome.list) > 0
    /\ \E i \in 1..Len(food_data) : food_data[i]["category"] = "beverages"

\* find_similar_foods has returned after its category filter left rows out
C16_WitnessSimilar ==
    /\ call.op = "find_similar_foods"
    /\ call.category = "fruits"
    /\ outcome.status = "ok"
    /\ \E i \in 1..Len(food_data) : food_data[i]["category"] = "vegetables"

(* C17 *)

\* the entries of a log as (food, grams) pairs
LogPairs(log) == [k \in 1..Len(log) |-> <<log[k].food, log[k].quantity>>]

\* the totals shown are the aggregate of exactly the entries of log
TotalsOf(summary, log) ==
    IF log = <<>> THEN summary = NoSummary
    ELSE /\ summary.status = "ok"
         /\ \A n \in TrackedNutrients : summary.value[n] = ExpectedTotal(LogPairs(log), n)

C17_WitnessAdd ==
    /\ call.op = "add_food"
    /\ logged_foods = <<LogEntry(apple, 50), LogEntry(Lower(Banana), 200)>>
    /\ outcome.status = "ok"
    /\ outcome.value["calories"] = R(204)

(* C18 *)

\* bmi < bound, bound in tenths
UnderTenths(bmi, bound) == 10 * bmi.n < bound * bmi.d

\* C18: classify_bmi is total and assigns exactly one class to every BMI
\* value: Underweight when bmi < 18.5, Normal (the string "Normal weight")
\* when 18.5 <= bmi < 25, Overweight when 25 <= bmi < 30, Obesity when
\* bmi >= 30; the boundary values 18.5, 25 and 30 fall in Normal, Overweight
\* and Obesity.
C18_BmiClasses ==
    call.op = "classify_bmi"
    => /\ outcome.status = "ok"
       /\ outcome.value \in {"Underweight", "Normal weight", "Overweight", "Obesity"}
       /\ outcome.value = "Underweight" <=> UnderTenths(call.bmi, 185)
       /\ outcome.value = "Normal weight"
            <=> (~UnderTenths(call.bmi, 185) /\ UnderTenths(call.bmi, 250))
       /\ outcome.value = "Overweight"
            <=> (~UnderTenths(call.bmi, 250) /\ UnderTenths(call.bmi, 300))
       /\ outcome.value = "Obesity" <=> ~UnderTenths(call.bmi, 300)
       /\ call.bmi = Dec(185) => outcome.value = "Normal weight"
       /\ call.bmi = R(25) => outcome.value = "Overweight"
       /\ call.bmi = R(30) => outcome.value = "Obesity"

\* the boundary value 25 has been classified
C18_Witness ==
    /\ call.op = "classify_bmi"
    /\ call.bmi = R(25)
    /\ outcome = Ok("Overweight")

\* the boundary value 18.5 has been classified
C18_WitnessLow ==
    /\ call.op = "classify_bmi"
    /\ call.bmi = Dec(185)
    /\ outcome = Ok("Normal weight")

(* C19 *)

\* C19: in recommend, a candidate passes the gap filter only if for at least
\* one nutrient of {calories, protein, fiber} the gap is positive, the
\* candidate's value is positive and value / gap > 0.1; a candidate for which
\* no such nutrient exists is never in the result.
C19_GapFilterOnlyIf ==
    (IsRecommend /\ outcome.status = "ok")
    => LET gaps == CallGaps
           returned == Returned
       IN  /\ \A i \in 1..Len(food_data) :
                _addresses_nutritional_gaps(food_data[i], gaps) => PassesGapFilter(i, gaps)
           /\ \A k \in 1..Len(returned) : PassesGapFilter(returned[k], gaps)

\* Apple, whose best ratio is fiber 2.4 / 25 = 0.096, has been left out, and
\* Banana, with fiber 2.6 / 25 = 0.104, returned
C19_Witness ==
    /\ IsRecommend
    /\ call.user_profile = DefaultProfile
    /\ call.current_intake = <<>>
    /\ call.dietary_restrictions = <<>>
    /\ outcome.status = "ok"
    /\ InCatalog(Apple) /\ InCatalog(Banana)
    /\ ~PassesGapFilter(RowOfName(Apple), CallGaps)
    /\ \E k \in 1..Len(outcome.list) : outcome.list[k].food_name = Banana
    /\ \A k \in 1..Len(outcome.list) : outcome.list[k].food_name # Apple

(* C20 *)

\* C20: in recommend, a candidate is rejected as too similar exactly when,
\* for at least one item of the current intake, compare(candidate, item)
\* gives a calories percentage difference under 20; a candidate whose
\* difference is 20 or more against every intake item is not rejected by
\* this test, so that it is returned when it passes the gap filter and count
\* leaves room for it.
C20_SimilarityRejection ==
    (IsRecommend /\ outcome.status = "ok" /\ ComparatorColumns \subseteq columns)
    => /\ \A i \in 1..Len(food_data) :
            _is_similar_to_current_intake(food_data, food_data[i], call.current_intake)
              = Ok(TooSimilar(i))
       /\ LET survivors == Survivors(CallGaps)
              returned == Returned
          IN  /\ \A k \in 1..Len(returned) : ~TooSimilar(returned[k])
              /\ Cardinality(survivors) <= call.num_recommendations
                    => \A i \in survivors : \E k \in 1..Len(returned) : returned[k] = i

\* Apple has been eaten: Apple itself (0%) and Leek (-71%) have been rejected,
\* Banana (+71%) returned
C20_Witness ==
    /\ IsRecommend
    /\ call.user_profile = DefaultProfile
    /\ call.current_intake = <<[food |-> Apple, quantity |-> 200]>>
    /\ call.dietary_restrictions = <<>>
    /\ outcome.status = "ok"
    /\ InCatalog(Leek) /\ PassesGapFilter(RowOfName(Leek), CallGaps) /\ TooSimilar(RowOfName(Leek))
    /\ Len(outcome.list) = 1
    /\ outcome.list[1].food_name = Banana

\* Leek has been rejected for the second of two items, not being close to the first
C20_WitnessSecondItem ==
    /\ IsRecommend
    /\ call.user_profile = DefaultProfile
    /\ call.current_intake
         = <<[food |-> Water, quantity |-> 50], [food |-> Apple, quantity |-> 200]>>
    /\ call.dietary_restrictions = <<>>
    /\ outcome.status = "ok"
    /\ InCatalog(Leek) /\ PassesGapFilter(RowOfName(Leek), CallGaps)
    /\ CaloriesPercent(RowOfName(Leek), call.current_intake[1]) = R(100)
    /\ TooSimilar(RowOfName(Leek))
    /\ outcome.list = <<>>

(* C21 *)

\* the nutrients whose gap (need - current) is zero or negative
ClosedGaps(gaps) == {n \in {"calories", "protein", "fiber"} : gaps[n].n <= 0}

\* every food of the intake of the call is in the catalog
IntakeKnown == \A k \in 1..Len(call.current_intake) : InCatalog(call.current_intake[k].food)

\* C21: a nutrient whose gap is zero or negative takes no part in recommend's
\* filter or score: on a table that has the columns the recommender reads, the
\* filter accepts a candidate exactly when some open gap g has value > 0 and
\* value / g > 0.1, the score of a candidate is the sum of value / g over the
\* open gaps alone, the call never fails with a division by zero, and when all
\* three gaps are zero or negative the result is the empty list.
C21_ClosedGapsIgnored ==
    (IsRecommend /\ ProfileKeys \subseteq DOMAIN call.user_profile /\ IntakeKnown
        /\ ComparatorColumns \subseteq columns)
    => LET gaps == CallGaps
       IN  /\ outcome.status # "ZeroDivisionError"
           /\ \A i \in 1..Len(food_data) :
                /\ _addresses_nutritional_gaps(food_data[i], gaps) = PassesGapFilter(i, gaps)
                /\ _nutritional_gap_score(food_data[i], gaps) = Score(i, gaps)
           /\ (OpenGaps(gaps) = {} /\ outcome.status = "ok") => outcome.list = <<>>

\* the calories gap is closed (208 eaten of 196.8) and the other two are open:
\* Banana, which has calories, has been returned for its fiber
C21_Witness ==
    /\ IsRecommend
    /\ call.user_profile = SmallProfile
    /\ call.current_intake
         = <<[food |-> Apple, quantity |-> 200], [food |-> Apple, quantity |-> 200]>>
    /\ ClosedGaps(CallGaps) = {"calories"}
    /\ outcome.status = "ok"
    /\ Len(outcome.list) = 1
    /\ outcome.list[1].food_name = Banana
    /\ RLt(Zero, outcome.list[1].calories)

\* the three gaps are closed, and nothing has been returned although the table
\* holds foods with calories, protein and fiber
C21_WitnessAllClosed ==
    /\ IsRecommend
    /\ call.user_profile = SmallProfile
    /\ call.current_intake = <<[food |-> Banana, quantity |-> 3000]>>
    /\ ClosedGaps(CallGaps) = {"calories", "protein", "fiber"}
    /\ InCatalog(Leek) /\ InCatalog(Apple)
    /\ ComparatorColumns \subseteq columns
    /\ outcome = OkList(<<>>)

(* C22 *)

\* C22: the recommender's calorie need is BMR * multiplier, where BMR is
\* 10 * weight + 6.25 * height - 5 * age + 5 when the gender is 'male' in any
\* letter case and ... - 161 for every other gender value, and the multiplier
\* is 1.2 / 1.375 / 1.55 / 1.725 / 1.9 for the keys sedentary / light /
\* moderate / heavy / very_heavy in any letter case and 1.55 for every other
\* key, the 3-level key 'Active' included.
C22_CalorieNeed ==
    call.op = "_calculate_calorie_needs"
    => outcome = Ok(CalorieNeed(call))

\* the need of a male profile in capitals with the key 'Heavy':
\* (700 + 1062.5 - 150 + 5) * 1.725 = 2790.1875
C22_Witness ==
    /\ call.op = "_calculate_calorie_needs"
    /\ call.gender = MALE /\ call.activity_level = Heavy
    /\ call.age = R(30) /\ call.weight = R(70) /\ call.height = R(170)
    /\ outcome = Ok(Norm(27901875, 10000))

\* the need of the same body with an unlisted gender and the key 'Active':
\* (700 + 1062.5 - 150 - 161) * 1.55 = 2249.825
C22_WitnessActive ==
    /\ call.op = "_calculate_calorie_needs"
    /\ call.gender = Other /\ call.activity_level = Active
    /\ call.age = R(30) /\ call.weight = R(70) /\ call.height = R(170)
    /\ outcome = Ok(Norm(2249825, 1000))

(* C23 *)

\* C23: every food returned by recommend has at least 1.2 times the calories
\* of every consumed food that has nonzero calories, so a candidate with fewer
\* calories than a consumed food is never returned however large the
\* difference, and no consumed food is itself returned.
C23_ReturnedOutweighIntake ==
    (IsRecommend /\ outcome.status = "ok" /\ ComparatorColumns \subseteq columns)
    => \A k \in 1..Len(outcome.list), j \in 1..Len(call.current_intake) :
          LET returned == outcome.list[k].calories
              eaten == CatalogValue(call.current_intake[j].food, "calories")
          IN  /\ InCatalog(call.current_intake[j].food)
              /\ eaten # Zero => ~RLt(returned, RMul(Norm(12, 10), eaten))
              /\ Lower(outcome.list[k].food_name) # Lower(call.current_intake[j].food)

\* 400 g of apple (52 kcal per 100 g) have been eaten: Leek (15 kcal), which
\* passes the gap filter and differs from Apple by 71%, and Apple itself are
\* not returned; Banana (89 >= 62.4) is
C23_Witness ==
    /\ IsRecommend
    /\ call.user_profile = DefaultProfile
    /\ call.current_intake
         = <<[food |-> Apple, quantity |-> 200], [food |-> Apple, quantity |-> 200]>>
    /\ call.num_recommendations = MaxRecommendations
    /\ outcome.status = "ok"
    /\ InCatalog(Leek) /\ PassesGapFilter(RowOfName(Leek), CallGaps)
    /\ PassesGapFilter(RowOfName(Apple), CallGaps)
    /\ Len(outcome.list) = 1
    /\ outcome.list[1].food_name = Banana
    /\ outcome.list[1].calories = R(89)

(* C24 *)

\* C24: the columns find_similar_foods and the recommender read from a catalog
\* row (food_name, calories, protein, fat, carbs, fiber, category) exist in the
\* table FoodDatabase loads and hold the values lookup returns for the food of
\* the row, so find_similar_foods, and recommend called with a complete
\* profile and no restriction, do not fail for a missing column, and the gap
\* filter reads positive calories from a row whose food has positive calories.
C24_ComparatorColumnsLoaded ==
    /\ \A c \in ComparatorColumns : c \in columns
    /\ \A i \in 1..Len(food_data) :
          LET found == FoodNutrient(food_data[i])
          IN  /\ food_data[i]["food_name"] = found.food_name
              /\ \A n \in {"calories", "protein", "fat", "carbs", "fiber"} :
                    food_data[i][n] = found[n]
              /\ RLt(Zero, found.calories) => RLt(Zero, SeriesGet(food_data[i], "calories"))
    /\ call.op = "find_similar_foods" => outcome.status # "KeyError"
    /\ (IsRecommend /\ ProfileKeys \subseteq DOMAIN call.user_profile
            /\ call.dietary_restrictions = <<>>)
        => outcome.status # "KeyError"

(* C25 *)

\* the profile with the defaults age 30, weight 70, height 170, gender male,
\* activity moderate for the keys it lacks
WithDefaults(profile) ==
    LET defaults == [age |-> R(30), weight |-> R(70), height |-> R(170),
                     gender |-> male, activity_level |-> moderate]
    IN  [k \in ProfileKeys |-> IF k \in DOMAIN profile THEN profile[k] ELSE defaults[k]]

\* C25: recommend accepts a profile that lacks some of the keys age, weight,
\* height, gender, activity_level (such as the profile of the app, which has
\* 'activity' for 'activity_level'): the call completes with the result it
\* gives for the profile completed with the defaults.
C25_MissingKeysDefaulted ==
    (IsRecommend /\ ~(ProfileKeys \subseteq DOMAIN call.user_profile))
    => /\ outcome.status # "KeyError"
       /\ outcome = get_personalized_recommendations(food_data, columns,
                                                     WithDefaults(call.user_profile),
                                                     call.current_intake,
                                                     call.dietary_restrictions,
                                                     call.num_recommendations)

(* C26 *)

\* C26: gaps called with a target of zero and a non-negative current value
\* for that nutrient emits no gap for it and does not fail with a division by
\* zero (current < 0 * 0.8 is false, so current / target is not computed).
C26_ZeroTargetNoDivision ==
    call.op = "identify_nutritional_gaps"
    => \A n \in DOMAIN call.targets :
          (call.targets[n] = Zero /\ ~RLt(Current(call.intake, n), Zero))
          => /\ outcome.status = "ok"
             /\ n \notin DOMAIN outcome.value

\* the target of calories is zero with nothing eaten, and the call has
\* returned the gap of the other nutrient alone
C26_Witness ==
    /\ call.op = "identify_nutritional_gaps"
    /\ DOMAIN call.targets = {"calories", "protein"}
    /\ call.targets["calories"] = Zero /\ call.targets["protein"] = R(2000)
    /\ DOMAIN call.intake = {"calories", "protein"}
    /\ call.intake["calories"] = Zero /\ call.intake["protein"] = R(1000)
    /\ outcome.status = "ok"
    /\ DOMAIN outcome.value = {"protein"}
    /\ outcome.value["protein"].percentage = R(50)

(* C27 *)

\* lookup resolves name to a catalog record whose stored name equals it
\* ignoring case
Resolves(name) ==
    LET found == get_food_nutrition(food_data, name)
    IN  /\ found.status = "ok"
        /\ found.value # None
        /\ Lower(found.value.food_name) = Lower(name)

\* C27: every name returned by search, and every name stored in a category
\* list, is resolved by lookup to a catalog record (never NotFound) whose
\* stored name equals it ignoring case; search with the empty substring
\* returns the name of every catalog row (in lower case), in table order.
C27_NamesResolve ==
    /\ call.op = "search_food"
         => /\ outcome.status = "ok"
            /\ \A k \in 1..Len(outcome.list) : Resolves(outcome.list[k])
    /\ \A c \in DOMAIN food_by_category :
          \A k \in 1..Len(food_by_category[c]) : Resolves(food_by_category[c][k])
    /\ (call.op = "search_food" /\ call.query = <<>>)
         => /\ Len(outcome.list) = Len(food_data)
            /\ \A i \in 1..Len(food_data) :
                  Lower(outcome.list[i]) = Lower(food_data[i]["food"])

\* the search for 'An' has returned 'banana', which lookup resolves to the
\* record named 'Banana', and the fruits list holds names lookup resolves
C27_Witness ==
    /\ call.op = "search_food"
    /\ call.query = <<"A", "n">>
    /\ outcome = OkList(<<Lower(Banana)>>)
    /\ get_food_nutrition(food_data, Lower(Banana)).value.food_name = Banana
    /\ Len(food_by_category["fruits"]) = 2

\* the search for '' has returned the names of a table of three rows, in order
C27_WitnessEmpty ==
    /\ call.op = "search_food"
    /\ call.query = <<>>
    /\ Len(food_data) = MaxRows
    /\ outcome = OkList(<<Lower(Leek), Lower(Banana), apple>>)

(* C28 *)

\* the weight branch a plan, and a food recommendation, come from
PlanBranch(plan) ==
    CASE plan[1] = "Focus on healthy weight gain" -> "underweight"
      [] plan[1] = "Focus on sustainable weight loss" -> "overweight"
      [] OTHER -> "normal"

FoodsBranch(foods) ==
    CASE Len(foods.protein_sources) > Len(base_proteins) -> "underweight"
      [] foods.avoid_foods # <<>> -> "overweight"
      [] OTHER -> "normal"

\* the branch that agrees with a class of classify_bmi
BranchOfClass(class) ==
    CASE class = "Underweight" -> "underweight"
      [] class \in {"Overweight", "Obesity"} -> "overweight"
      [] OTHER -> "normal"

\* C28: for every BMI value the weight branch taken by get_food_recommendations
\* and by recommend_nutrition (underweight / overweight-or-obese / normal)
\* agrees with the class classify_bmi assigns to the value: the overweight
\* branch is taken exactly when the class is Overweight or Obesity.
C28_BranchAgreesWithClass ==
    call.op = "profile_advice"
    => /\ PlanBranch(outcome.value.nutrition_plan) = BranchOfClass(outcome.value.bmi_status)
       /\ FoodsBranch(outcome.value.food_recommendations)
            = BranchOfClass(outcome.value.bmi_status)

(* C29 *)

\* C29: when the two foods have equal values for a nutrient (both zero, and
\* compare(A, A), included), compare labels its second argument as
\* better_food, so for distinct foods with equal values compare(A, B) and
\* compare(B, A) name different foods.
C29_TieNamesSecond ==
    (call.op = "compare_foods" /\ outcome.status = "ok")
    => LET swapped == compare_foods(food_data, call.food2, call.food1, call.nutrients)
       IN  \A n \in DOMAIN outcome.value.comparison :
              LET compared == outcome.value.comparison[n]
              IN  compared.food1_value = compared.food2_value
                  => /\ compared.better_food = call.food2
                     /\ swapped.status = "ok"
                     /\ swapped.value.comparison[n].better_food = call.food1
                     /\ call.food1 # call.food2
                          => swapped.value.comparison[n].better_food # compared.better_food

\* Banana and Leek have 1.1 g of protein each: compare(Banana, Leek) has named
\* Leek, and compare(Leek, Banana) names Banana
C29_Witness ==
    /\ call.op = "compare_foods"
    /\ call.food1 = Banana /\ call.food2 = Leek
    /\ outcome.status = "ok"
    /\ outcome.value.comparison["protein"].food1_value = Dec(11)
    /\ outcome.value.comparison["protein"].food2_value = Dec(11)
    /\ outcome.value.comparison["protein"].better_food = Leek
    /\ compare_foods(food_data, Leek, Banana, call.nutrients).value.comparison["protein"].better_food
         = Banana

\* a food compared with itself under two spellings, and two values that are
\* both zero: the second spelling is named
C29_WitnessSame ==
    /\ call.op = "compare_foods"
    /\ call.food1 = Apple /\ call.food2 = APPLE
    /\ outcome.status = "ok"
    /\ outcome.value.comparison["calories"].better_food = APPLE
    /\ \E other \in {Water} :
          /\ InCatalog(other)
          /\ LET zeros == compare_foods(food_data, Lower(other), other, call.nutrients)
             IN  /\ zeros.value.comparison["calories"].food1_value = Zero
                 /\ zeros.value.comparison["calories"].food2_value = Zero
                 /\ zeros.value.comparison["calories"].better_food = other

(* C30 *)

\* C30: 'milk' being one of the beverage keywords, which are tested first, no
\* food whose name contains 'milk' is placed in DAIRY: every such name is in
\* BEVERAGES, and the DAIRY list holds only names that contain 'cheese' and no
\* beverage keyword.
C30_MilkIsBeverage ==
    /\ \E k \in 1..Len(beverage_keywords) : beverage_keywords[k] = <<"m", "i", "l", "k">>
    /\ \A i \in 1..Len(food_data) :
          LET food_name == Lower(food_data[i]["food"])
          IN  Contains(food_name, <<"m", "i", "l", "k">>)
              => /\ Occurrences(food_by_category["dairy"], food_name) = 0
                 /\ Occurrences(food_by_category["beverages"], food_name) > 0
    /\ \A k \in 1..Len(food_by_category["dairy"]) :
          LET food_name == food_by_category["dairy"][k]
          IN  /\ Contains(food_name, <<"c", "h", "e", "e", "s", "e">>)
              /\ \A b \in 1..Len(beverage_keywords) :
                    ~Contains(food_name, beverage_keywords[b])

\* 'Goat Milk Cheese' is in the beverages list and 'Cheese Pie' in the dairy
\* list, which the client has read
C30_Witness ==
    /\ LowerNames(food_data) = <<Lower(GoatMilkCheese), Lower(CheesePie)>>
    /\ food_by_category["beverages"] = <<Lower(GoatMilkCheese)>>
    /\ food_by_category["dairy"] = <<Lower(CheesePie)>>
    /\ call.op = "get_food_by_category" /\ call.category = "dairy"
    /\ outcome = OkList(<<Lower(CheesePie)>>)

====
